---- MODULE Spec2Model ----
(***************************************************************************)
(* A model of jsdb: the file-backed document store of ludlovian/jsdb.      *)
(*                                                                         *)
(*   Index / UniqueIndex   src/src/dbindex.mjs                             *)
(*   lockFile              src/src/dbindex.mjs (lockfile.mjs)              *)
(*   Datastore             src/unnamed/part_010 (datastore.mjs)            *)
(*   Database              src/src/index.mjs                               *)
(*   getId, hashString     src/src/util.mjs                                *)
(*   delve                 src/src/util.mjs                                *)
(*   Queue                 src/src/queue.js, src/dist/index.mjs            *)
(*                                                                         *)
(* JavaScript values are encoded so that TLC can compare them:             *)
(*   - a scalar is the string of its JSON text ("1", "\"x\"", "null"),     *)
(*     and the token "undefined" stands for undefined / an absent field;   *)
(*   - a field value is [isArray, v]: v is the one-element sequence of the *)
(*     scalar, or the sequence of the array's elements;                    *)
(*   - an object has an identity, oid: two documents with equal content    *)
(*     are still two objects, as === and Set membership see them.          *)
(***************************************************************************)
EXTENDS Integers, Sequences, FiniteSets, TLC

\* ------------------------------------------------------------------ bounds
\* most live documents the store is driven to hold
MaxDocs == 2
\* most lines the log file is driven to hold
MaxLog == 3
\* most appends the store is driven to have in flight at a time
MaxInFlight == 1
\* most operations submitted to one Database in the queued specification
MaxOps == 2
\* most calls a process makes before it ends, in the specifications whose
\* caller awaits every call and whose outcomes are all kept
MaxCalls == 3

\* most jobs added to a Queue
MaxJobs == 3
\* most calls of wait() on a Queue
MaxWaits == 2
\* most calls of start() on a start/stop Queue
MaxStarts == 2

\* ------------------------------------------------------------------ values
UNDEFINED == "undefined"
NULL == "null"

Scalar(s) == [isArray |-> FALSE, v |-> <<s>>]
Array(seq) == [isArray |-> TRUE, v |-> seq]

\* value == null, the loose comparison: true of null and of undefined
IsNullish(s) == s \in {UNDEFINED, NULL}

\* doc[fieldName]: a field the object does not have reads as undefined
Get(doc, fieldName) ==
  IF fieldName \in DOMAIN doc THEN doc[fieldName] ELSE Scalar(UNDEFINED)

\* the scalar of a scalar-valued field
ScalarOf(value) == value.v[1]

\* ------------------------------------------------------------ sequences
Range(seq) == {seq[i] : i \in DOMAIN seq}

\* seq without its i-th element
RemoveAt(seq, i) == SubSeq(seq, 1, i - 1) \o SubSeq(seq, i + 1, Len(seq))

\* the first position of seq whose element satisfies Test, 0 when none does
FirstIndex(seq, Test(_)) ==
  IF \E i \in DOMAIN seq : Test(seq[i])
  THEN CHOOSE i \in DOMAIN seq :
         Test(seq[i]) /\ \A j \in 1..(i - 1) : ~Test(seq[j])
  ELSE 0

\* ------------------------------------------------------------------ Index
\* An index is [options, data]. data models the Map: the sequence of its
\* entries in insertion order, each [key, docs]; docs models the Set of a
\* generic index in insertion order, and holds the one document of a key of
\* a unique index.

\* Index.create(options)
Index_create(options) == [options |-> options, data |-> <<>>]

\* this.data.get(value): the position of the entry of key value, 0 when absent
EntryAt(ix, value) ==
  LET IsKey(e) == e.key = value IN FirstIndex(ix.data, IsKey)

\* this.data.has(value)
Has(ix, value) == EntryAt(ix, value) # 0

\* Index.find / UniqueIndex.find: the array of the documents under value for
\* a generic index; the document itself (here a sequence of at most one
\* document, empty for undefined) for a unique index
Index_find(ix, value) ==
  LET i == EntryAt(ix, value) IN IF i = 0 THEN <<>> ELSE ix.data[i].docs

\* Index.findOne / UniqueIndex.findOne: the first document under value, as a
\* sequence of at most one document (empty for undefined)
Index_findOne(ix, value) ==
  LET i == EntryAt(ix, value) IN
  IF i = 0 THEN <<>> ELSE <<ix.data[i].docs[1]>>

\* a generic index that keeps the documents of a key in an array instead of
\* a Set: a document linked twice under a key is held twice
Generic_linkValueToDoc_Array(ix, value, doc) ==
  LET i == EntryAt(ix, value) IN
  IF IsNullish(value) /\ ix.options.sparse THEN [ix |-> ix, err |-> FALSE]
  ELSE IF i # 0
  THEN [ix |-> [ix EXCEPT !.data[i].docs = Append(@, doc)], err |-> FALSE]
  ELSE [ix |-> [ix EXCEPT !.data = Append(@, [key |-> value, docs |-> <<doc>>])],
        err |-> FALSE]

\* Index.linkValueToDoc (generic index): never fails
Generic_linkValueToDoc(ix, value, doc) ==
  LET i == EntryAt(ix, value) IN
  IF IsNullish(value) /\ ix.options.sparse THEN [ix |-> ix, err |-> FALSE]
  ELSE IF i # 0
  THEN \* docs.add(doc): a Set holds an object once
       IF doc \in Range(ix.data[i].docs) THEN [ix |-> ix, err |-> FALSE]
       ELSE [ix |-> [ix EXCEPT !.data[i].docs = Append(@, doc)], err |-> FALSE]
  ELSE [ix |-> [ix EXCEPT !.data = Append(@, [key |-> value, docs |-> <<doc>>])],
        err |-> FALSE]

\* a unique index that overwrites the document linked under a taken key
\* instead of raising KeyViolation
Unique_linkValueToDoc_Overwrite(ix, value, doc) ==
  LET i == EntryAt(ix, value) IN
  IF IsNullish(value) /\ ix.options.sparse THEN [ix |-> ix, err |-> FALSE]
  ELSE IF i # 0
  THEN [ix |-> [ix EXCEPT !.data[i].docs = <<doc>>], err |-> FALSE]
  ELSE [ix |-> [ix EXCEPT !.data = Append(@, [key |-> value, docs |-> <<doc>>])],
        err |-> FALSE]

\* a unique index that links null and undefined whether or not it is sparse
Unique_linkValueToDoc_NoSparse(ix, value, doc) ==
  IF Has(ix, value) THEN [ix |-> ix, err |-> TRUE]
  ELSE [ix |-> [ix EXCEPT !.data = Append(@, [key |-> value, docs |-> <<doc>>])],
        err |-> FALSE]

\* UniqueIndex.linkValueToDoc: KeyViolation when the key is taken
Unique_linkValueToDoc(ix, value, doc) ==
  IF IsNullish(value) /\ ix.options.sparse THEN [ix |-> ix, err |-> FALSE]
  ELSE IF Has(ix, value) THEN [ix |-> ix, err |-> TRUE]
  ELSE [ix |-> [ix EXCEPT !.data = Append(@, [key |-> value, docs |-> <<doc>>])],
        err |-> FALSE]

linkValueToDoc(ix, value, doc) ==
  IF ix.options.unique THEN Unique_linkValueToDoc(ix, value, doc)
  ELSE Generic_linkValueToDoc(ix, value, doc)

\* Index.unlinkValueFromDoc (generic index)
Generic_unlinkValueFromDoc(ix, value, doc) ==
  LET i == EntryAt(ix, value) IN
  IF i = 0 THEN ix
  ELSE LET IsDoc(d) == d = doc
           j == FirstIndex(ix.data[i].docs, IsDoc)
           docs == IF j = 0 THEN ix.data[i].docs ELSE RemoveAt(ix.data[i].docs, j)
       IN IF docs = <<>> THEN [ix EXCEPT !.data = RemoveAt(@, i)]
          ELSE [ix EXCEPT !.data[i].docs = docs]

\* a unique index that unlinks the key whichever document holds it
Unique_unlinkValueFromDoc_Any(ix, value, doc) ==
  LET i == EntryAt(ix, value) IN
  IF i # 0 THEN [ix EXCEPT !.data = RemoveAt(@, i)] ELSE ix

\* UniqueIndex.unlinkValueFromDoc: only when the key is linked to this doc
Unique_unlinkValueFromDoc(ix, value, doc) ==
  LET i == EntryAt(ix, value) IN
  IF i # 0 /\ ix.data[i].docs[1] = doc
  THEN [ix EXCEPT !.data = RemoveAt(@, i)]
  ELSE ix

unlinkValueFromDoc(ix, value, doc) ==
  IF ix.options.unique THEN Unique_unlinkValueFromDoc(ix, value, doc)
  ELSE Generic_unlinkValueFromDoc(ix, value, doc)

\* value.forEach(v => this.linkValueToDoc(v, doc)) from element i on: the
\* first KeyViolation ends the loop and leaves the earlier links in place
RECURSIVE LinkEach(_, _, _, _)
LinkEach(ix, values, i, doc) ==
  IF i > Len(values) THEN [ix |-> ix, err |-> FALSE]
  ELSE LET Linked1(r) == IF r.err THEN r ELSE LinkEach(r.ix, values, i + 1, doc)
       IN Linked1(linkValueToDoc(ix, values[i], doc))

RECURSIVE UnlinkEach(_, _, _, _)
UnlinkEach(ix, values, i, doc) ==
  IF i > Len(values) THEN ix
  ELSE UnlinkEach(unlinkValueFromDoc(ix, values[i], doc), values, i + 1, doc)

\* Index.addDoc: under each element of an array, else under the value
Index_addDoc(ix, doc) ==
  LinkEach(ix, Get(doc, ix.options.fieldName).v, 1, doc)

\* Index.removeDoc
Index_removeDoc(ix, doc) ==
  UnlinkEach(ix, Get(doc, ix.options.fieldName).v, 1, doc)

\* ------------------------------------------------------------------- util
\* The field names a row of the model may carry, in the order the caller
\* wrote them (the order JSON.stringify emits them in).
RowFields == <<"_id", "foo">>

\* the UTF-16 code units of the JSON text of the scalars and of the pieces
\* of syntax stringify emits for the rows of the model
CodeUnits(text) ==
  CASE text = "null" -> <<110, 117, 108, 108>>
    [] text = "false" -> <<102, 97, 108, 115, 101>>
    [] text = "\"\"" -> <<34, 34>>
    [] text = "0" -> <<48>>
    [] text = "1" -> <<49>>
    [] text = "2" -> <<50>>
    [] text = "\"x\"" -> <<34, 120, 34>>
    [] text = "\"y\"" -> <<34, 121, 34>>
    [] text = "_id" -> <<34, 95, 105, 100, 34, 58>>
    [] text = "foo" -> <<34, 102, 111, 111, 34, 58>>
    [] text = "{" -> <<123>>
    [] text = "}" -> <<125>>
    [] text = "[" -> <<91>>
    [] text = "]" -> <<93>>
    [] text = "," -> <<44>>

\* the code units of the elements of an array, comma separated; an
\* undefined element is written as null
RECURSIVE ElementUnits(_, _)
ElementUnits(values, i) ==
  IF i > Len(values) THEN <<>>
  ELSE (IF i > 1 THEN CodeUnits(",") ELSE <<>>)
       \o CodeUnits(IF values[i] = UNDEFINED THEN NULL ELSE values[i])
       \o ElementUnits(values, i + 1)

ValueUnits(value) ==
  IF value.isArray
  THEN CodeUnits("[") \o ElementUnits(value.v, 1) \o CodeUnits("]")
  ELSE CodeUnits(ScalarOf(value))

\* the properties of row from RowFields[i] on; a property whose value is
\* undefined is left out
RECURSIVE PropertyUnits(_, _, _)
PropertyUnits(row, i, first) ==
  IF i > Len(RowFields) THEN <<>>
  ELSE LET f == RowFields[i] IN
       IF f \notin DOMAIN row \/ row[f] = Scalar(UNDEFINED)
       THEN PropertyUnits(row, i + 1, first)
       ELSE (IF first THEN <<>> ELSE CodeUnits(","))
            \o CodeUnits(f) \o ValueUnits(row[f])
            \o PropertyUnits(row, i + 1, FALSE)

\* stringify(row), as the sequence of its code units
stringify(row) == CodeUnits("{") \o PropertyUnits(row, 1, TRUE) \o CodeUnits("}")

\* hashString keeps h as a 32-bit integer, h = (31 * h + ch) mod 2^32, and
\* getId uses its low 31 bits only. The low 31 bits are carried here as
\* [hi, lo], h = hi * 2^16 + lo, so that no product leaves 32 bits.
Two16 == 65536
Two15 == 32768
MaxInt31 == 2147483647

HashStep(h, ch) ==
  LET low == 31 * h.lo + ch IN
  [hi |-> (31 * h.hi + (low \div Two16)) % Two15, lo |-> low % Two16]

RECURSIVE HashFrom(_, _, _)
HashFrom(h, units, i) ==
  IF i > Len(units) THEN h ELSE HashFrom(HashStep(h, units[i]), units, i + 1)

\* hashString(string) & 0x7fffffff
hashString(units) ==
  LET h == HashFrom([hi |-> 0, lo |-> 0], units, 1) IN h.hi * Two16 + h.lo

\* (start + n) & 0x7fffffff, for start already in 0 .. 2^31 - 1
AddMod31(start, n) ==
  IF start > MaxInt31 - n THEN (start - MaxInt31) + n - 1 ELSE start + n

Digits36 ==
  <<"0", "1", "2", "3", "4", "5", "6", "7", "8", "9", "a", "b", "c", "d", "e",
    "f", "g", "h", "i", "j", "k", "l", "m", "n", "o", "p", "q", "r", "s", "t",
    "u", "v", "w", "x", "y", "z">>

\* n.toString(36)
RECURSIVE toString36(_)
toString36(n) ==
  IF n < 36 THEN Digits36[n + 1]
  ELSE toString36(n \div 36) \o Digits36[(n % 36) + 1]

\* the scalar of the JavaScript string str
StringScalar(str) == "\"" \o str \o "\""

\* the probe budget of getId
ProbeBudget == 100000000

\* a getId that returns its first candidate whether or not it is taken
Probe_NoCheck(start, n, existing) ==
  <<StringScalar(toString36(AddMod31(start, n)))>>

\* getId's loop from n on: the first id that is no key of existing; the
\* result is <<>> when the budget is used up (the code throws)
RECURSIVE Probe(_, _, _)
Probe(start, n, existing) ==
  IF n >= ProbeBudget THEN <<>>
  ELSE LET id == StringScalar(toString36(AddMod31(start, n))) IN
       IF ~Has(existing, id) THEN <<id>> ELSE Probe(start, n + 1, existing)

\* getId(row, existing): existing is the primary index
getId(row, existing) == Probe(hashString(stringify(row)), 0, existing)

\* cleanObject(obj): obj without the properties whose value is undefined
cleanObject(obj) ==
  LET keep == {k \in DOMAIN obj : obj[k] # Scalar(UNDEFINED)} IN
  [k \in keep |-> obj[k]]

\* a value that || skips: undefined, null, 0, "" and false
Falsy(s) == s \in {UNDEFINED, NULL, "0", "\"\"", "false"}

\* the nested object { b: "x" }, written as its JSON text like the scalars
ObjB == "{\"b\":\"x\"}"

\* key.split('.'), for the field names of the model
Split(key) == IF key = "a.b" THEN <<"a", "b">> ELSE <<key>>

\* obj[name] for a value inside a record: the nested object has the one
\* property b; a string, a number or an array has no property of these names
MemberOf(value, name) ==
  IF ~value.isArray /\ ScalarOf(value) = ObjB /\ name = "b"
  THEN Scalar("\"x\"")
  ELSE Scalar(UNDEFINED)

\* the loop of delve from path[p] on, obj being value: it stops at a falsy
\* obj, and a path not walked to its end yields undefined
RECURSIVE DelveFrom(_, _, _)
DelveFrom(value, path, p) ==
  IF p > Len(path) THEN value
  ELSE IF ~value.isArray /\ Falsy(ScalarOf(value)) THEN Scalar(UNDEFINED)
  ELSE DelveFrom(MemberOf(value, path[p]), path, p + 1)

\* delve(obj, key) of util.mjs, which Index does not call
delve(doc, key) == DelveFrom(Get(doc, Split(key)[1]), Split(key), 2)

\* -------------------------------------------------------------- Datastore
\* this.indexes is the sequence of the indexes in the order of the object's
\* properties (the order Object.values lists them in).

PrimaryOptions == [fieldName |-> "_id", unique |-> TRUE, sparse |-> FALSE]

\* Datastore.empty
empty == <<Index_create(PrimaryOptions)>>

\* the position of this.indexes[fieldName], 0 when there is none
IndexAt(ixs, fieldName) ==
  LET IsNamed(ix) == ix.options.fieldName = fieldName IN FirstIndex(ixs, IsNamed)

\* this.indexes is a plain object: this.indexes[name] also reads what the
\* object inherits from Object.prototype, a function (or, for __proto__,
\* the prototype itself) for each of these names
ObjectPrototype ==
  {"constructor", "toString", "toLocaleString", "valueOf", "hasOwnProperty",
   "isPrototypeOf", "propertyIsEnumerable", "__proto__"}

\* Datastore.hasIndex: Boolean(this.indexes[fieldName])
hasIndex(ixs, fieldName) ==
  IndexAt(ixs, fieldName) # 0 \/ fieldName \in ObjectPrototype

\* this.indexes._id
Primary(ixs) == ixs[IndexAt(ixs, "_id")]

\* Array.from(map.values())
RECURSIVE MapValues(_, _)
MapValues(data, i) ==
  IF i > Len(data) THEN <<>> ELSE data[i].docs \o MapValues(data, i + 1)

\* an allDocs that lists the records from the last stored to the first
allDocs_Reversed(ixs) ==
  LET docs == MapValues(Primary(ixs).data, 1) IN
  [i \in DOMAIN docs |-> docs[Len(docs) + 1 - i]]

\* Datastore.allDocs
allDocs(ixs) == MapValues(Primary(ixs).data, 1)

\* the elements of an array as JSON.stringify writes them
NullForUndefined(value) ==
  IF value.isArray
  THEN [value EXCEPT !.v = [i \in DOMAIN value.v |->
                              IF value.v[i] = UNDEFINED THEN NULL ELSE value.v[i]]]
  ELSE value

\* parse(serialize(doc)) for a document: its properties without the
\* object's identity, without those whose value is undefined
Serialize(doc) ==
  LET keep == {k \in DOMAIN doc : k # "oid" /\ doc[k] # Scalar(UNDEFINED)} IN
  [k \in keep |-> NullForUndefined(doc[k])]

\* the live records of a store: the documents of its primary index
LiveDocs(ixs) == Range(allDocs(ixs))

\* the records of a store as the log writes them, and its index descriptors
RecordSet(ixs) == {Serialize(doc) : doc \in LiveDocs(ixs)}
Descriptors(ixs) == {ixs[i].options : i \in DOMAIN ixs}

\* every document object some index of ixs holds
HeldDocs(ixs) ==
  UNION {UNION {Range(ixs[i].data[j].docs) : j \in DOMAIN ixs[i].data} :
           i \in DOMAIN ixs}

\* The identity of a newly created object. Two objects are told apart by
\* their content or, when the content is the same, by oid: the new object
\* gets the least oid that no held object of the same content has.
FreshOid(ixs, content) ==
  LET Least(used) ==
        CHOOSE n \in 1..(Cardinality(used) + 1) :
          n \notin used /\ \A m \in 1..(n - 1) : m \in used
  IN Least({d.oid : d \in {h \in HeldDocs(ixs) : Serialize(h) = content}})

\* a back-fill that links no stored document: the index stays as created
BackFill_None(ix, docs, i) == [ix |-> ix, err |-> FALSE]

\* docs.forEach(doc => ix.addDoc(doc)) from docs[i] on
RECURSIVE BackFill(_, _, _)
BackFill(ix, docs, i) ==
  IF i > Len(docs) THEN [ix |-> ix, err |-> FALSE]
  ELSE LET Added(r) == IF r.err THEN r ELSE BackFill(r.ix, docs, i + 1)
       IN Added(Index_addDoc(ix, docs[i]))

\* an addIndex that installs the index without linking the stored documents
addIndex_NoBackFill(ixs, options) ==
  LET at == IndexAt(ixs, options.fieldName)
      ix == Index_create(options) IN
  [ixs |-> IF at = 0 THEN Append(ixs, ix) ELSE [ixs EXCEPT ![at] = ix],
   err |-> ""]

\* an addIndex that assigns the index to this.indexes before the back-fill:
\* a KeyViolation leaves the index with the documents linked so far
addIndex_AssignFirst(ixs, options) ==
  LET Assign(at, r) ==
        [ixs |-> IF at = 0 THEN Append(ixs, r.ix) ELSE [ixs EXCEPT ![at] = r.ix],
         err |-> IF r.err THEN "KeyViolation" ELSE ""]
  IN Assign(IndexAt(ixs, options.fieldName),
            BackFill(Index_create(options), allDocs(ixs), 1))

\* Datastore.addIndex: a KeyViolation of the back-fill leaves this.indexes
\* as it was; the assignment keeps the place of a property that exists
addIndex(ixs, options) ==
  LET Assign(at, r) ==
        IF r.err THEN [ixs |-> ixs, err |-> "KeyViolation"]
        ELSE [ixs |-> IF at = 0 THEN Append(ixs, r.ix)
                      ELSE [ixs EXCEPT ![at] = r.ix],
              err |-> ""]
  IN Assign(IndexAt(ixs, options.fieldName),
            BackFill(Index_create(options), allDocs(ixs), 1))

\* Datastore.removeIndex
removeIndex(ixs, fieldName) ==
  LET Delete(at) == IF at = 0 THEN ixs ELSE RemoveAt(ixs, at)
  IN Delete(IndexAt(ixs, fieldName))

\* the loop of addDoc's try block from index i on: the index that raises
\* KeyViolation ends it, and the indexes before it stay changed
RECURSIVE AddLoop(_, _, _, _)
AddLoop(ixs, i, olddoc, doc) ==
  IF i > Len(ixs) THEN [ixs |-> ixs, err |-> FALSE]
  ELSE LET removed == IF olddoc # <<>> THEN Index_removeDoc(ixs[i], olddoc[1])
                      ELSE ixs[i]
           Added(r) ==
             IF r.err THEN [ixs |-> [ixs EXCEPT ![i] = r.ix], err |-> TRUE]
             ELSE AddLoop([ixs EXCEPT ![i] = r.ix], i + 1, olddoc, doc)
       IN Added(Index_addDoc(removed, doc))

\* a rollback that takes the new document out and does not put the old
\* one back
RollbackLoop_Forget(ixs, i, olddoc, doc) ==
  [ixs |-> [k \in DOMAIN ixs |-> Index_removeDoc(ixs[k], doc)], err |-> FALSE]

\* the loop of addDoc's catch block from index i on
RECURSIVE RollbackLoop(_, _, _, _)
RollbackLoop(ixs, i, olddoc, doc) ==
  IF i > Len(ixs) THEN [ixs |-> ixs, err |-> FALSE]
  ELSE LET Restored(r) ==
             IF r.err THEN [ixs |-> [ixs EXCEPT ![i] = r.ix], err |-> TRUE]
             ELSE RollbackLoop([ixs EXCEPT ![i] = r.ix], i + 1, olddoc, doc)
           Removed(a) ==
             IF olddoc = <<>>
             THEN RollbackLoop([ixs EXCEPT ![i] = a], i + 1, olddoc, doc)
             ELSE Restored(Index_addDoc(Index_removeDoc(a, olddoc[1]), olddoc[1]))
       IN Removed(Index_removeDoc(ixs[i], doc))

\* Datastore.addDoc(row, { mustExist, mustNotExist }): the indexes it leaves,
\* the error it throws ("" for none) and the document it returns
addDoc(ixs, row, mustExist, mustNotExist) ==
  LET _id == Get(row, "_id")
      rest == [k \in (DOMAIN row) \ {"_id"} |-> row[k]]
      \* the try block and its catch
      Tried(olddoc, doc, r) ==
        IF ~r.err THEN [ixs |-> r.ixs, err |-> "", doc |-> <<doc>>]
        ELSE [ixs |-> RollbackLoop(r.ixs, 1, olddoc, doc).ixs,
              err |-> "KeyViolation", doc |-> <<>>]
      Try(olddoc, doc) == Tried(olddoc, doc, AddLoop(ixs, 1, olddoc, doc))
      \* doc = { _id, ...cleanObject(rest) }
      Create(olddoc, content) ==
        Try(olddoc, [k \in {"oid"} |-> FreshOid(ixs, content)] @@ content)
      Checked(olddoc, id) ==
        IF olddoc = <<>> /\ mustExist
        THEN [ixs |-> ixs, err |-> "NotExists", doc |-> <<>>]
        ELSE IF olddoc # <<>> /\ mustNotExist
        THEN [ixs |-> ixs, err |-> "KeyViolation", doc |-> <<>>]
        ELSE IF id = <<>> THEN [ixs |-> ixs, err |-> "Error", doc |-> <<>>]
        ELSE Create(olddoc, [k \in {"_id"} |-> Scalar(id[1])] @@ cleanObject(rest))
  IN
  Checked(Index_findOne(Primary(ixs), ScalarOf(_id)),
          IF Falsy(ScalarOf(_id)) THEN getId(row, Primary(ixs))
          ELSE <<ScalarOf(_id)>>)

\* a removeDoc that unlinks the document from the primary index alone
removeDoc_PrimaryOnly(ixs, row) ==
  LET olddoc == Index_findOne(Primary(ixs), ScalarOf(Get(row, "_id"))) IN
  IF olddoc = <<>> THEN [ixs |-> ixs, err |-> "NotExists", doc |-> <<>>]
  ELSE [ixs |-> [k \in DOMAIN ixs |->
                   IF ixs[k].options.fieldName = "_id"
                   THEN Index_removeDoc(ixs[k], olddoc[1]) ELSE ixs[k]],
        err |-> "", doc |-> olddoc]

\* Datastore.removeDoc(row)
removeDoc(ixs, row) ==
  LET Remove(olddoc) ==
        IF olddoc = <<>> THEN [ixs |-> ixs, err |-> "NotExists", doc |-> <<>>]
        ELSE [ixs |-> [k \in DOMAIN ixs |-> Index_removeDoc(ixs[k], olddoc[1])],
              err |-> "", doc |-> olddoc]
  IN Remove(Index_findOne(Primary(ixs), ScalarOf(Get(row, "_id"))))

\* ---------------------------------------------------------------- the log
\* A line of the log is modelled by the object it parses to: a row, or an
\* envelope with one of the three special keys. A parsed object is a new
\* object: the identity of a stored document is not in its line.
deleted == "$$deleted"
addIndexKey == "$$addIndex"
deleteIndexKey == "$$deleteIndex"

DeletedLine(doc) == deleted :> Serialize(doc)
AddIndexLine(options) == addIndexKey :> options
DeleteIndexLine(fieldName) == deleteIndexKey :> [fieldName |-> fieldName]

\* docs.map(doc => serialize(doc))
SerializeAll(docs) == [i \in DOMAIN docs |-> Serialize(docs[i])]

\* Datastore.deleteIndex(fieldName) up to its first await: the indexes it
\* leaves, the error it throws and the lines whose append it starts
deleteIndex(ixs, fieldName) ==
  IF fieldName = "_id" THEN [ixs |-> ixs, err |-> "", lines |-> <<>>]
  ELSE IF ~hasIndex(ixs, fieldName)
  THEN [ixs |-> ixs, err |-> "NoIndex", lines |-> <<>>]
  ELSE [ixs |-> removeIndex(ixs, fieldName), err |-> "",
        lines |-> <<DeleteIndexLine(fieldName)>>]

\* a replay of $$deleteIndex that only removes the index
HydrateDeleteIndex_Silent(ixs, fieldName) ==
  [ixs |-> removeIndex(ixs, fieldName), err |-> "", lines |-> <<>>]

\* hydrate's branch for a $$deleteIndex line: it calls the asynchronous
\* deleteIndex and does not await it. The call runs up to the append, which
\* is left in flight; a NoIndex it throws rejects a promise nobody holds.
HydrateDeleteIndex(ixs, fieldName) ==
  LET Started(r) == [ixs |-> r.ixs, err |-> "", lines |-> r.lines]
  IN Started(deleteIndex(ixs, fieldName))

\* the loop of hydrate from lines[i] on. started collects the appends left
\* in flight; the line that throws ends the loop with the store as built
\* so far
RECURSIVE HydrateLoop(_, _, _, _)
HydrateLoop(ixs, lines, i, started) ==
  IF i > Len(lines) THEN [ixs |-> ixs, err |-> "", started |-> started]
  ELSE
    LET line == lines[i]
        \* the line is replayed; what throws ends the loop
        Replayed(r) ==
          IF r.err # "" THEN [ixs |-> r.ixs, err |-> r.err, started |-> started]
          ELSE HydrateLoop(r.ixs, lines, i + 1, started)
        Dropped(r) == HydrateLoop(r.ixs, lines, i + 1, started \o r.lines)
    IN
    IF addIndexKey \in DOMAIN line
    THEN Replayed(addIndex(ixs, line[addIndexKey]))
    ELSE IF deleteIndexKey \in DOMAIN line
    THEN Dropped(HydrateDeleteIndex(ixs, line[deleteIndexKey].fieldName))
    ELSE IF deleted \in DOMAIN line
    THEN Replayed(removeDoc(ixs, line[deleted]))
    ELSE Replayed(addDoc(ixs, line, FALSE, FALSE))

\* Datastore.hydrate on the content read from the file
hydrate(lines) == HydrateLoop(empty, lines, 1, <<>>)

\* an IndexLines that writes a line for the primary index too
IndexLines_All(ixs, i) == [k \in DOMAIN ixs |-> AddIndexLine(ixs[k].options)]

\* the $$addIndex lines of rewrite: one for each index but _id
RECURSIVE IndexLines(_, _)
IndexLines(ixs, i) ==
  IF i > Len(ixs) THEN <<>>
  ELSE (IF ixs[i].options.fieldName # "_id"
        THEN <<AddIndexLine(ixs[i].options)>> ELSE <<>>)
       \o IndexLines(ixs, i + 1)

\* The comparators the callers hand to compact: "desc" orders the records by
\* primary key, the larger first, (a, b) => b._id - a._id, for the keys 1 and
\* 2; "none" stands for no sortBy.
KeyRank(doc) ==
  CASE Get(doc, "_id") = Scalar("1") -> 1
    [] Get(doc, "_id") = Scalar("2") -> 2
    [] OTHER -> 0

sortBy_desc(a, b) == KeyRank(b) - KeyRank(a)

\* sorted with doc put behind the documents that do not compare after it
InsertSorted(sorted, doc) ==
  LET After(e) == sortBy_desc(doc, e) < 0
      Put(at) ==
        IF at = 0 THEN Append(sorted, doc)
        ELSE SubSeq(sorted, 1, at - 1) \o <<doc>> \o SubSeq(sorted, at, Len(sorted))
  IN Put(FirstIndex(sorted, After))

\* docs.sort(sortBy): the sort is stable
RECURSIVE SortFrom(_, _, _)
SortFrom(docs, i, sorted) ==
  IF i > Len(docs) THEN sorted
  ELSE SortFrom(docs, i + 1, InsertSorted(sorted, docs[i]))

\* if (sortBy && typeof sortBy === 'function') docs.sort(sortBy)
Sorted(docs, sortBy) == IF sortBy = "none" THEN docs ELSE SortFrom(docs, 1, <<>>)

\* the content Datastore.rewrite writes to the temporary file and renames
\* over the log
rewrite(ixs, sortBy) ==
  IndexLines(ixs, 1) \o SerializeAll(Sorted(allDocs(ixs), sortBy))

\* ------------------------------------------------- the public operations
\* An operation of Database is a record: its name and its arguments. rows
\* is the array given to insert / update / upsert / delete, or the one
\* record given alone.

\* docOrDocs.map(doc => this.addDoc(doc, options)) from rows[i] on: the row
\* that throws ends the loop; the rows before it stay added
RECURSIVE AddDocs(_, _, _, _, _, _)
AddDocs(ixs, rows, i, mustExist, mustNotExist, docs) ==
  IF i > Len(rows) THEN [ixs |-> ixs, err |-> "", docs |-> docs]
  ELSE LET Added(r) ==
             IF r.err # "" THEN [ixs |-> r.ixs, err |-> r.err, docs |-> docs]
             ELSE AddDocs(r.ixs, rows, i + 1, mustExist, mustNotExist, docs \o r.doc)
       IN Added(addDoc(ixs, rows[i], mustExist, mustNotExist))

\* docOrDocs.map(doc => this.removeDoc(doc)) from rows[i] on
RECURSIVE RemoveDocs(_, _, _, _)
RemoveDocs(ixs, rows, i, docs) ==
  IF i > Len(rows) THEN [ixs |-> ixs, err |-> "", docs |-> docs]
  ELSE LET Removed(r) ==
             IF r.err # "" THEN [ixs |-> r.ixs, err |-> r.err, docs |-> docs]
             ELSE RemoveDocs(r.ixs, rows, i + 1, docs \o r.doc)
       IN Removed(removeDoc(ixs, rows[i]))

\* What a task of the store does: the indexes and the file content it
\* leaves, the appends it leaves in flight, the error its promise rejects
\* with ("" when it resolves) and whether it read the file.
Result(ixs, content, started, err, read) ==
  [ixs |-> ixs, file |-> content, started |-> started, err |-> err, read |-> read]

\* an upsert that starts the append and returns without awaiting it
upsert_NoAwait(ixs, content, rows, mustExist, mustNotExist) ==
  LET Append_(r) ==
        IF r.err # "" THEN Result(r.ixs, content, <<>>, r.err, FALSE)
        ELSE Result(r.ixs, content, SerializeAll(r.docs), "", FALSE)
  IN Append_(AddDocs(ixs, rows, 1, mustExist, mustNotExist, <<>>))

\* Datastore.upsert: the append follows the last addDoc, so a row that
\* throws leaves the rows before it in the store and nothing in the log
upsert(ixs, content, rows, mustExist, mustNotExist) ==
  LET Append_(r) ==
        IF r.err # "" THEN Result(r.ixs, content, <<>>, r.err, FALSE)
        ELSE Result(r.ixs, content \o SerializeAll(r.docs), <<>>, "", FALSE)
  IN Append_(AddDocs(ixs, rows, 1, mustExist, mustNotExist, <<>>))

\* Datastore.delete
delete(ixs, content, rows) ==
  LET Append_(r) ==
        IF r.err # "" THEN Result(r.ixs, content, <<>>, r.err, FALSE)
        ELSE Result(r.ixs,
                    content \o [i \in DOMAIN r.docs |-> DeletedLine(r.docs[i])],
                    <<>>, "", FALSE)
  IN Append_(RemoveDocs(ixs, rows, 1, <<>>))

\* an ensureIndex that installs the index whether or not one of that name
\* exists
ensureIndex_Replace(ixs, content, options) ==
  LET Append_(r) ==
        IF r.err # "" THEN Result(ixs, content, <<>>, r.err, FALSE)
        ELSE Result(r.ixs, content \o <<AddIndexLine(options)>>, <<>>, "", FALSE)
  IN Append_(addIndex(ixs, options))

\* an ensureIndex that appends the addIndex line although the index exists
ensureIndex_AppendAgain(ixs, content, options) ==
  IF hasIndex(ixs, options.fieldName)
  THEN Result(ixs, content \o <<AddIndexLine(options)>>, <<>>, "", FALSE)
  ELSE LET Append_(r) ==
             IF r.err # "" THEN Result(r.ixs, content, <<>>, r.err, FALSE)
             ELSE Result(r.ixs, content \o <<AddIndexLine(options)>>, <<>>, "", FALSE)
       IN Append_(addIndex(ixs, options))

\* Datastore.ensureIndex
ensureIndex(ixs, content, options) ==
  IF hasIndex(ixs, options.fieldName) THEN Result(ixs, content, <<>>, "", FALSE)
  ELSE LET Append_(r) ==
             IF r.err # "" THEN Result(r.ixs, content, <<>>, r.err, FALSE)
             ELSE Result(r.ixs, content \o <<AddIndexLine(options)>>, <<>>, "", FALSE)
       IN Append_(addIndex(ixs, options))

\* Datastore.find / Datastore.findOne: what this.indexes[fieldName] reads
\* from the prototype has no find method, and calling it is a TypeError
find(ixs, content, fieldName) ==
  Result(ixs, content, <<>>,
         IF ~hasIndex(ixs, fieldName) THEN "NoIndex"
         ELSE IF IndexAt(ixs, fieldName) = 0 THEN "TypeError"
         ELSE "",
         FALSE)

\* the function Database hands to exec for the operation op
Fn(ixs, content, op) ==
  CASE op.name = "insert" -> upsert(ixs, content, op.rows, FALSE, TRUE)
    [] op.name = "update" -> upsert(ixs, content, op.rows, TRUE, FALSE)
    [] op.name = "upsert" -> upsert(ixs, content, op.rows, FALSE, FALSE)
    [] op.name = "delete" -> delete(ixs, content, op.rows)
    [] op.name = "ensureIndex" -> ensureIndex(ixs, content, op.options)
    [] op.name = "deleteIndex" ->
         LET Append_(r) == Result(r.ixs, content \o r.lines, <<>>, r.err, FALSE)
         IN Append_(deleteIndex(ixs, op.fieldName))
    [] op.name = "reload" ->
         LET Read(r) == Result(r.ixs, content, r.started, r.err, TRUE)
         IN Read(hydrate(content))
    [] op.name = "compact" ->
         Result(ixs, rewrite(ixs, op.sortBy), <<>>, "", FALSE)
    [] op.name = "getAll" -> Result(ixs, content, <<>>, "", FALSE)
    [] op.name \in {"find", "findOne"} -> find(ixs, content, op.fieldName)

\* ------------------------------------------------------------- the state
\* Two Database objects, 1 and 2, are opened on the same file.
DB == {1, 2}

VARIABLES
  file,      \* the content of the log file: the sequence of its lines
  temp,      \* the temporary file of rewrite, <filename>~: whether it exists
             \* and the lines written to it
  lockfile,  \* 0: no lock file; d: the lock file exists, created by d
  lockfiles, \* lockfiles: the lock files this process has recorded
  handles,   \* the file handles rewrite has opened on the temporary file and
             \* not closed
  proc,      \* the process: "up", "sigint" once cleanAndGo has scheduled
             \* the exit, and how it ended once it is gone: "exited",
             \* "interrupted" or "failed"
  pending,   \* the lines of the appends started and not awaited, in flight
  loaded,    \* loaded[d]: Datastore.loaded
  indexes,   \* indexes[d]: Datastore.indexes
  queue,     \* queue[d]: the tasks handed to Serial.exec and not settled;
             \* the head is the one running
  pc,        \* pc[d]: where the running task of d stands
  booted,    \* booted[d]: lockFile, hydrate and rewrite of d's first task
             \* have all completed
  hasRead,   \* hasRead[d]: d has read the log file
  history,   \* history[d]: the outcomes of the settled tasks of d
  \* the Queue of src/queue.js and the promises around it
  width,     \* the width the Queue was constructed with; 0 before new Queue()
  running,   \* running: the jobs started and not ended
  waiting,   \* waiting: the jobs added and not started, in order
  listeners, \* listeners: the promises of wait() to resolve when idle
  jobs,      \* jobs[j]: the j-th job added: its function, how far it is,
             \* how its function's promise settled, and its future
  waits,     \* waits[w]: the promise the w-th call of wait() returned:
             \* "resolved" the shared resolved promise, "pending" a new
             \* promise, "released" a new promise the listeners resolved
  micro,     \* the microtask queue: the reactions of startJob's promise
             \* chain that are due, in order
  begun,     \* the jobs whose function was called, in the order of the calls
  \* the Queue of dist/index.mjs, started and stopped, and its callers
  qStarted,  \* this.started
  gates,     \* gates[g]: whether the g-th promise made by _resetReadyFlag is
             \* resolved; empty before new Queue()
  ready,     \* this._ready: the gate made last, which this.start resolves
  chain,     \* chain[k]: the k-th task added, stop()'s included: its
             \* function, how far it is, how its promise settled, and the
             \* gate waitForReady returned after it
  runs,      \* the tasks whose function was called, in the order of the calls
  calls      \* the calls of add, stop and start, in the order they were made

\* the variables of the store
storeVars ==
  <<file, temp, handles, lockfile, lockfiles, proc, pending, loaded, indexes,
    queue, pc, booted, hasRead, history>>

\* the variables of the Queue of src/queue.js
queueVars == <<width, running, waiting, listeners, jobs, waits, micro, begun>>

\* the variables of the Queue of dist/index.mjs
gateVars == <<qStarted, gates, ready, chain, runs, calls>>

\* the variables outside the store
libVars == <<queueVars, gateVars>>

vars == <<storeVars, libVars>>

\* no temporary file
NoFile == [exists |-> FALSE, lines |-> <<>>]

\* the state after new Database(filename), the file not existing yet
Init ==
  /\ file = <<>>
  /\ temp = NoFile
  /\ handles = 0
  /\ lockfile = 0
  /\ lockfiles = {}
  /\ proc = "up"
  /\ pending = <<>>
  /\ loaded = [d \in DB |-> FALSE]
  /\ indexes = [d \in DB |-> empty]
  /\ queue = [d \in DB |-> <<>>]
  /\ pc = [d \in DB |-> "idle"]
  /\ booted = [d \in DB |-> FALSE]
  /\ hasRead = [d \in DB |-> FALSE]
  /\ history = [d \in DB |-> <<>>]
  /\ width = 0
  /\ running = 0
  /\ waiting = <<>>
  /\ listeners = <<>>
  /\ jobs = <<>>
  /\ waits = <<>>
  /\ micro = <<>>
  /\ begun = <<>>
  /\ qStarted = FALSE
  /\ gates = <<>>
  /\ ready = 0
  /\ chain = <<>>
  /\ runs = <<>>
  /\ calls = <<>>

\* the outcome of a settled task: the name of the operation and the call
\* with its arguments, its place among the calls made on its Database, the
\* error its promise rejected with, whether the operation's function ran,
\* whether the bootstrap had completed when it ran, whether the task was
\* queued before the first task settled, and the records a getAll resolved
\* with (for compact: the content it left the log with)
Outcome(task, err, ran, wasBooted, value) ==
  [op |-> task.op.name, call |-> task.op, seq |-> task.seq, err |-> err,
   ran |-> ran, booted |-> wasBooted, early |-> task.early, value |-> value]

\* what the promise of a read resolves with: for getAll the stored records
Value(ixs, op) ==
  IF op.name = "getAll" THEN RecordSet(ixs) ELSE {}

\* the steps of the task exec builds: the first task of a Datastore locks,
\* hydrates and rewrites before it calls fn; the later ones call fn alone
FirstStep(task) == IF task.boot THEN "lock" ELSE "fn"

\* Datastore.exec with loaded never set: every task runs the bootstrap
exec_NeverLoaded(isLoaded, op, early, seq) ==
  [op |-> op, boot |-> TRUE, early |-> early, seq |-> seq]

\* Datastore.exec(fn): the task handed to Serial.exec
exec(isLoaded, op, early, seq) ==
  [op |-> op, boot |-> ~isLoaded, early |-> early, seq |-> seq]

\* the running task of d has settled: Serial starts the next one
Settle(d, outcome) ==
  /\ history' = [history EXCEPT ![d] = Append(@, outcome)]
  /\ queue' = [queue EXCEPT ![d] = Tail(@)]
  /\ pc' = [pc EXCEPT ![d] = IF Len(queue[d]) > 1
                              THEN FirstStep(queue[d][2]) ELSE "idle"]

\* a call of a method of Database d: exec hands the task to Serial, which
\* starts it when no task of d is running
Enter(d, op) ==
  /\ LET task == exec(loaded[d], op, loaded[d] /\ history[d] = <<>>,
                      Len(history[d]) + Len(queue[d]) + 1) IN
     /\ queue' = [queue EXCEPT ![d] = Append(@, task)]
     /\ pc' = [pc EXCEPT ![d] = IF queue[d] = <<>> THEN FirstStep(task) ELSE @]
  /\ loaded' = [loaded EXCEPT ![d] = TRUE]
  /\ UNCHANGED <<file, temp, lockfile, pending, indexes, booted, hasRead, history>>
  /\ UNCHANGED <<lockfiles, proc, handles, libVars>>

\* a call made whether or not the earlier calls have settled
Submit(d, op) ==
  /\ Len(history[d]) + Len(queue[d]) < MaxOps
  /\ Enter(d, op)

\* the lock file of the database: <filename>.lock~
LockName == "db.lock~"

\* cleanup: every lock file recorded in lockfiles is unlinked; lf is the lock
\* file on disk
cleanup(recorded, lf) == IF LockName \in recorded THEN 0 ELSE lf

\* lockFile, with nothing between its two steps: symlink creates the lock
\* file and lockfiles.add records it
LockAcquire(d) ==
  /\ pc[d] = "lock"
  /\ lockfile = 0
  /\ lockfile' = d
  /\ pc' = [pc EXCEPT ![d] = "hydrate"]
  /\ UNCHANGED <<file, temp, pending, loaded, indexes, queue, booted, hasRead,
                 history>>
  /\ lockfiles' = lockfiles \cup {LockName}
  /\ UNCHANGED <<proc, handles, libVars>>

\* a lockFile that swallows EEXIST: the task goes on to hydrate
LockFail_Proceed(d) ==
  /\ pc[d] = "lock"
  /\ lockfile # 0
  /\ pc' = [pc EXCEPT ![d] = "hydrate"]
  /\ UNCHANGED <<file, temp, lockfile, pending, loaded, indexes, queue, booted,
                 hasRead, history>>
  /\ UNCHANGED <<lockfiles, proc, handles, libVars>>

\* lockFile: symlink fails with EEXIST, the task rejects with DatabaseLocked
LockFail(d) ==
  /\ pc[d] = "lock"
  /\ lockfile # 0
  /\ Settle(d, Outcome(Head(queue[d]), "DatabaseLocked", FALSE, booted[d], {}))
  /\ UNCHANGED <<file, temp, lockfile, pending, loaded, indexes, booted, hasRead>>
  /\ UNCHANGED <<lockfiles, proc, handles, libVars>>

\* the hydrate of the first task
BootHydrate(d) ==
  /\ pc[d] = "hydrate"
  /\ \E r \in {hydrate(file)} :
       /\ Len(pending) + Len(r.started) <= MaxInFlight
       /\ indexes' = [indexes EXCEPT ![d] = r.ixs]
       /\ pending' = pending \o r.started
       /\ IF r.err = ""
          THEN /\ pc' = [pc EXCEPT ![d] = "rewrite"]
               /\ UNCHANGED <<queue, history>>
          ELSE Settle(d, Outcome(Head(queue[d]), r.err, FALSE, booted[d], {}))
  /\ hasRead' = [hasRead EXCEPT ![d] = TRUE]
  /\ UNCHANGED <<file, temp, lockfile, loaded, booted>>
  /\ UNCHANGED <<lockfiles, proc, handles, libVars>>

\* the rewrite of the first task, from open to rename with no crash between:
\* the temporary file is written and renamed over the log
BootRewrite(d) ==
  /\ pc[d] = "rewrite"
  /\ file' = rewrite(indexes[d], "none")
  /\ temp' = NoFile
  /\ pc' = [pc EXCEPT ![d] = "fn"]
  /\ booted' = [booted EXCEPT ![d] = TRUE]
  /\ UNCHANGED <<lockfile, pending, loaded, indexes, queue, hasRead, history>>
  /\ UNCHANGED <<lockfiles, proc, handles, libVars>>

\* what running the function of op does to the store of d and to the file
Apply(d, op, r) ==
  /\ Len(r.file) <= MaxLog
  /\ Len(allDocs(r.ixs)) <= MaxDocs
  /\ Len(pending) + Len(r.started) <= MaxInFlight
  /\ indexes' = [indexes EXCEPT ![d] = r.ixs]
  /\ file' = r.file
  /\ temp' = IF op.name = "compact" THEN NoFile ELSE temp
  /\ pending' = pending \o r.started
  /\ hasRead' = [hasRead EXCEPT ![d] = @ \/ r.read]

\* the running task of d calls the function of its operation and settles
RunFn(d) ==
  /\ pc[d] = "fn"
  /\ LET task == Head(queue[d]) IN
     \E r \in {Fn(indexes[d], file, task.op)} :
       /\ Apply(d, task.op, r)
       /\ Settle(d, Outcome(task, r.err, TRUE, booted[d],
                           Value(indexes[d], task.op)))
  /\ UNCHANGED <<lockfile, loaded, booted>>
  /\ UNCHANGED <<lockfiles, proc, handles, libVars>>

\* a call of a method of Database d by a caller that awaits it, once the
\* first task has settled: no other task is queued, the task runs at once
Call(d, op) ==
  /\ loaded[d] /\ queue[d] = <<>> /\ history[d] # <<>>
  /\ LET task == exec(loaded[d], op, FALSE, Len(history[d]) + 1) IN
     /\ ~task.boot
     /\ \E r \in {Fn(indexes[d], file, task.op)} : Apply(d, task.op, r)
     /\ UNCHANGED history
  /\ UNCHANGED <<lockfile, loaded, queue, pc, booted>>
  /\ UNCHANGED <<lockfiles, proc, handles, libVars>>

\* an append that was left in flight reaches the file
AppendLands ==
  /\ pending # <<>>
  /\ Len(file) < MaxLog
  /\ \E i \in DOMAIN pending :
       /\ file' = Append(file, pending[i])
       /\ pending' = RemoveAt(pending, i)
  /\ UNCHANGED <<temp, lockfile, loaded, indexes, queue, pc, booted, hasRead,
                 history>>
  /\ UNCHANGED <<lockfiles, proc, handles, libVars>>

\* the process exits with no task running; cleanup unlinks the lock files
\* it created; the appends in flight are lost. The file is opened again by
\* a new process.
Exit ==
  /\ \A d \in DB : pc[d] = "idle"
  /\ \E d \in DB : loaded[d]
  /\ lockfile' = cleanup(lockfiles, lockfile)
  /\ pending' = <<>>
  /\ loaded' = [d \in DB |-> FALSE]
  /\ indexes' = [d \in DB |-> empty]
  /\ queue' = [d \in DB |-> <<>>]
  /\ pc' = [d \in DB |-> "idle"]
  /\ booted' = [d \in DB |-> FALSE]
  /\ hasRead' = [d \in DB |-> FALSE]
  /\ history' = [d \in DB |-> <<>>]
  /\ UNCHANGED <<file, temp>>
  /\ lockfiles' = {}
  /\ handles' = 0
  /\ UNCHANGED <<proc, libVars>>

\* Datastore.rewrite, one step for each of its awaits. The rewrite of a
\* Datastore's first task, before its function, takes no sortBy; the rewrite
\* that is the function of compact takes the caller's.
InBoot(d) == Head(queue[d]).boot /\ ~booted[d]

SortOf(d) == IF InBoot(d) THEN "none" ELSE Head(queue[d]).op.sortBy

\* the function of compact is called: rewrite starts
CompactStart(d) ==
  /\ pc[d] = "fn"
  /\ Head(queue[d]).op.name = "compact"
  /\ pc' = [pc EXCEPT ![d] = "rewrite"]
  /\ UNCHANGED <<file, temp, lockfile, pending, loaded, indexes, queue, booted,
                 hasRead, history>>
  /\ UNCHANGED <<lockfiles, proc, handles, libVars>>

\* open(temp, 'w'): the temporary file is created, or truncated
TempOpen(d) ==
  /\ pc[d] = "rewrite"
  /\ temp' = [exists |-> TRUE, lines |-> <<>>]
  /\ pc' = [pc EXCEPT ![d] = "write"]
  /\ UNCHANGED <<file, lockfile, pending, loaded, indexes, queue, booted, hasRead,
                 history>>
  /\ handles' = handles + 1
  /\ UNCHANGED <<lockfiles, proc, libVars>>

\* fh.writeFile(lines.join('')): the content reaches the temporary file a
\* line at a time; the call returns once the last line is written
TempWrite(d) ==
  /\ pc[d] = "write"
  /\ \E lines \in {rewrite(indexes[d], SortOf(d))} :
       IF Len(temp.lines) < Len(lines)
       THEN /\ temp' = [temp EXCEPT !.lines = Append(@, lines[Len(@) + 1])]
            /\ UNCHANGED pc
       ELSE /\ pc' = [pc EXCEPT ![d] = "sync"]
            /\ UNCHANGED temp
  /\ UNCHANGED <<file, lockfile, pending, loaded, indexes, queue, booted, hasRead,
                 history>>
  /\ UNCHANGED <<lockfiles, proc, handles, libVars>>

\* fh.sync()
TempSync(d) ==
  /\ pc[d] = "sync"
  /\ pc' = [pc EXCEPT ![d] = "close"]
  /\ UNCHANGED <<file, temp, lockfile, pending, loaded, indexes, queue, booted,
                 hasRead, history>>
  /\ UNCHANGED <<lockfiles, proc, handles, libVars>>

\* fh.close()
TempClose(d) ==
  /\ pc[d] = "close"
  /\ pc' = [pc EXCEPT ![d] = "rename"]
  /\ UNCHANGED <<file, temp, lockfile, pending, loaded, indexes, queue, booted,
                 hasRead, history>>
  /\ handles' = handles - 1
  /\ UNCHANGED <<lockfiles, proc, libVars>>

\* a rename that adds the content of the temporary file to the log
Rename_Append(d) ==
  /\ pc[d] = "rename"
  /\ file' = file \o temp.lines
  /\ temp' = NoFile
  /\ IF InBoot(d)
     THEN /\ booted' = [booted EXCEPT ![d] = TRUE]
          /\ pc' = [pc EXCEPT ![d] = "fn"]
          /\ UNCHANGED <<queue, history>>
     ELSE /\ Settle(d, Outcome(Head(queue[d]), "", TRUE, booted[d], file'))
          /\ UNCHANGED booted
  /\ UNCHANGED <<lockfile, pending, loaded, indexes, hasRead>>
  /\ UNCHANGED <<lockfiles, proc, handles, libVars>>

\* rename(temp, filename): the temporary file becomes the log. The first
\* task goes on to its function; compact settles, and its outcome keeps the
\* content the log was left with
Rename(d) ==
  /\ pc[d] = "rename"
  /\ file' = temp.lines
  /\ temp' = NoFile
  /\ IF InBoot(d)
     THEN /\ booted' = [booted EXCEPT ![d] = TRUE]
          /\ pc' = [pc EXCEPT ![d] = "fn"]
          /\ UNCHANGED <<queue, history>>
     ELSE /\ Settle(d, Outcome(Head(queue[d]), "", TRUE, booted[d], file'))
          /\ UNCHANGED booted
  /\ UNCHANGED <<lockfile, pending, loaded, indexes, hasRead>>
  /\ UNCHANGED <<lockfiles, proc, handles, libVars>>

\* the running task of d calls the function of an operation other than
\* compact
RunOther(d) ==
  /\ pc[d] = "fn"
  /\ Head(queue[d]).op.name # "compact"
  /\ RunFn(d)

\* Datastore.append rejects: appendFile fails with an I/O error and nothing
\* reaches the file. What the function of the operation did to the store
\* before it awaited the append stays, and the promise of the task rejects
\* with the error.
AppendFails(d) ==
  /\ pc[d] = "fn"
  /\ Head(queue[d]).op.name
       \in {"insert", "update", "upsert", "delete", "ensureIndex", "deleteIndex"}
  /\ LET task == Head(queue[d]) IN
     \E r \in {Fn(indexes[d], file, task.op)} :
       /\ r.err = "" /\ r.file # file
       /\ Len(allDocs(r.ixs)) <= MaxDocs
       /\ indexes' = [indexes EXCEPT ![d] = r.ixs]
       /\ Settle(d, Outcome(task, "EIO", TRUE, booted[d], {}))
  /\ UNCHANGED <<file, temp, lockfile, pending, loaded, booted, hasRead>>
  /\ UNCHANGED <<lockfiles, proc, handles, libVars>>

\* an await of rewrite rejects with an I/O error while the handle is open:
\* rewrite has no finally, the exception leaves it at once and the promise
\* of the task rejects; the temporary file stays as far as it was written
RewriteThrows(d) ==
  /\ Settle(d, Outcome(Head(queue[d]), "EIO", ~InBoot(d), booted[d], {}))
  /\ UNCHANGED <<file, temp, lockfile, pending, loaded, indexes, booted, hasRead>>
  /\ UNCHANGED <<lockfiles, proc, handles, libVars>>

\* fh.writeFile rejects, after any number of the lines were written
TempWriteFails(d) == pc[d] = "write" /\ RewriteThrows(d)

\* fh.sync rejects
TempSyncFails(d) == pc[d] = "sync" /\ RewriteThrows(d)

\* the process is killed, whatever its tasks are doing: memory and the
\* appends in flight are lost, the log and the temporary file stay as they
\* are. The exit hook does not run; the stale lock file is removed by hand
\* before the file is opened again by a new process.
Crash ==
  /\ \E d \in DB : loaded[d]
  /\ lockfile' = 0
  /\ pending' = <<>>
  /\ loaded' = [d \in DB |-> FALSE]
  /\ indexes' = [d \in DB |-> empty]
  /\ queue' = [d \in DB |-> <<>>]
  /\ pc' = [d \in DB |-> "idle"]
  /\ booted' = [d \in DB |-> FALSE]
  /\ hasRead' = [d \in DB |-> FALSE]
  /\ history' = [d \in DB |-> <<>>]
  /\ UNCHANGED <<file, temp>>
  /\ lockfiles' = {}
  /\ handles' = 0
  /\ UNCHANGED <<proc, libVars>>

\* ------------------------------------------- the process and its lock files
\* the process has ended: by the event loop running empty, by the
\* process.exit(2) of cleanAndGo, or by an exception nothing caught
Gone == proc \in {"exited", "interrupted", "failed"}

Alive == ~Gone

\* lockFile up to its await: symlink(target, lockfile) has made the lock
\* file, and the function has not resumed
lockFile_symlink(d) ==
  /\ pc[d] = "lock"
  /\ lockfile = 0
  /\ lockfile' = d
  /\ pc' = [pc EXCEPT ![d] = "symlinked"]
  /\ UNCHANGED <<file, temp, pending, loaded, indexes, queue, booted, hasRead,
                 history>>
  /\ UNCHANGED <<lockfiles, proc, handles, libVars>>

\* lockFile after its await: lockfiles.add(lockfile), and exec goes on to
\* hydrate
lockFile_add(d) ==
  /\ pc[d] = "symlinked"
  /\ lockfiles' = lockfiles \cup {LockName}
  /\ pc' = [pc EXCEPT ![d] = "hydrate"]
  /\ UNCHANGED <<file, temp, lockfile, pending, loaded, indexes, queue, booted,
                 hasRead, history>>
  /\ UNCHANGED <<proc, handles, libVars>>

\* process.on('exit', cleanup): the listener runs as the process ends, and
\* the process is gone in the way given; its memory is left as it was
OnExit(way) ==
  /\ lockfile' = cleanup(lockfiles, lockfile)
  /\ proc' = way
  /\ UNCHANGED <<file, temp, lockfiles, pending, loaded, indexes, queue, pc,
                 booted, hasRead, history>>
  /\ UNCHANGED <<handles, libVars>>

\* the event loop has nothing left to do: no task is queued and no append
\* is in flight; the process exits
NormalExit ==
  /\ proc = "up"
  /\ \E d \in DB : loaded[d]
  /\ \A d \in DB : queue[d] = <<>>
  /\ pending = <<>>
  /\ OnExit("exited")

\* process.on('SIGINT', cleanAndGo): the statement `cleanup` calls nothing,
\* and setImmediate schedules process.exit(2)
cleanAndGo ==
  /\ proc = "up"
  /\ proc' = "sigint"
  /\ UNCHANGED <<file, temp, lockfile, lockfiles, pending, loaded, indexes,
                 queue, pc, booted, hasRead, history>>
  /\ UNCHANGED <<handles, libVars>>

\* the callback of setImmediate: process.exit(2) emits 'exit'
process_exit ==
  /\ proc = "sigint"
  /\ OnExit("interrupted")

\* an exception nothing catches is thrown while the process runs: Node
\* emits 'exit' and the process ends
uncaughtException ==
  /\ proc = "up"
  /\ \E d \in DB : loaded[d]
  /\ OnExit("failed")

\* the file is opened again by a new process, a lock file left behind
\* having been removed by hand
Restart ==
  /\ Gone
  /\ proc' = "up"
  /\ lockfile' = 0
  /\ lockfiles' = {}
  /\ pending' = <<>>
  /\ loaded' = [d \in DB |-> FALSE]
  /\ indexes' = [d \in DB |-> empty]
  /\ queue' = [d \in DB |-> <<>>]
  /\ pc' = [d \in DB |-> "idle"]
  /\ booted' = [d \in DB |-> FALSE]
  /\ hasRead' = [d \in DB |-> FALSE]
  /\ history' = [d \in DB |-> <<>>]
  /\ UNCHANGED <<file, temp>>
  /\ UNCHANGED <<handles, libVars>>

\* ------------------------------------------------------------------ Queue
\* src/queue.js. A job is [fn, state, result, future]. fn is what the task
\* function does: "value" returns a value, "throw" throws or returns a
\* rejected promise, "defer" returns a promise its owner settles later.
\* state follows startJob's chain resolved.then(() => fn())
\* .then(resolve, reject).then(endJob):
\*   "waiting"    pushed to waiting
\*   "started"    startJob has counted it; the call of fn is due
\*   "executing"  fn was called and its promise is pending
\*   "returned"   the promise of fn has settled; resolve / reject is due
\*   "settled"    the future is settled; endJob is due
\*   "ended"      endJob has run
\* result is how the promise of fn settled: "none" while it has not, "ok"
\* or "err". future is the promise add returned: whether it is settled, and
\* then the job whose result it was settled with and whether that was a value.
Fns == {"value", "throw", "defer"}

Unsettled == [settled |-> FALSE, of |-> 0, ok |-> FALSE]

Job(fn, state) == [fn |-> fn, state |-> state, result |-> "none", future |-> Unsettled]

Microtask(kind, j) == [kind |-> kind, job |-> j]

\* new Queue(width)
Queue_new(w) ==
  /\ width = 0
  /\ width' = w
  /\ UNCHANGED <<running, waiting, listeners, jobs, waits, micro, begun>>
  /\ UNCHANGED <<storeVars, gateVars>>

\* add with no test of running < width: every job is started at once
add_StartAlways(fn) ==
  /\ width # 0
  /\ Len(jobs) < MaxJobs
  /\ running' = running + 1
  /\ jobs' = Append(jobs, Job(fn, "started"))
  /\ micro' = Append(micro, Microtask("call", Len(jobs) + 1))
  /\ UNCHANGED waiting
  /\ UNCHANGED <<width, listeners, waits, begun>>
  /\ UNCHANGED <<storeVars, gateVars>>

\* an add that does not push the job when the queue is full
add_Drop(fn) ==
  /\ width # 0
  /\ Len(jobs) < MaxJobs
  /\ IF running < width
     THEN /\ running' = running + 1
          /\ jobs' = Append(jobs, Job(fn, "started"))
          /\ micro' = Append(micro, Microtask("call", Len(jobs) + 1))
     ELSE /\ jobs' = Append(jobs, Job(fn, "waiting"))
          /\ UNCHANGED <<running, micro>>
  /\ UNCHANGED waiting
  /\ UNCHANGED <<width, listeners, waits, begun>>
  /\ UNCHANGED <<storeVars, gateVars>>

\* Queue.add(fn): startJob when running < width, else waiting.push
add(fn) ==
  /\ width # 0
  /\ Len(jobs) < MaxJobs
  /\ IF running < width
     THEN /\ running' = running + 1
          /\ jobs' = Append(jobs, Job(fn, "started"))
          /\ micro' = Append(micro, Microtask("call", Len(jobs) + 1))
          /\ UNCHANGED waiting
     ELSE /\ waiting' = Append(waiting, Len(jobs) + 1)
          /\ jobs' = Append(jobs, Job(fn, "waiting"))
          /\ UNCHANGED <<running, micro>>
  /\ UNCHANGED <<width, listeners, waits, begun>>
  /\ UNCHANGED <<storeVars, gateVars>>

\* a wait that returns the resolved promise whatever is running
wait_AlwaysResolved ==
  /\ width # 0
  /\ Len(waits) < MaxWaits
  /\ waits' = Append(waits, "resolved")
  /\ UNCHANGED listeners
  /\ UNCHANGED <<width, running, waiting, jobs, micro, begun>>
  /\ UNCHANGED <<storeVars, gateVars>>

\* Queue.wait(): the resolved promise when nothing runs, else a new promise
\* whose resolve is pushed to listeners
wait ==
  /\ width # 0
  /\ Len(waits) < MaxWaits
  /\ IF running = 0
     THEN /\ waits' = Append(waits, "resolved")
          /\ UNCHANGED listeners
     ELSE /\ waits' = Append(waits, "pending")
          /\ listeners' = Append(listeners, Len(waits) + 1)
  /\ UNCHANGED <<width, running, waiting, jobs, micro, begun>>
  /\ UNCHANGED <<storeVars, gateVars>>

\* () => fn(): the function of job j is called
CallFn(j) ==
  /\ micro # <<>> /\ Head(micro) = Microtask("call", j)
  /\ begun' = Append(begun, j)
  /\ IF jobs[j].fn = "defer"
     THEN /\ jobs' = [jobs EXCEPT ![j].state = "executing"]
          /\ micro' = Tail(micro)
     ELSE /\ jobs' = [jobs EXCEPT ![j].state = "returned",
                                  ![j].result = IF jobs[j].fn = "value"
                                                THEN "ok" ELSE "err"]
          /\ micro' = Append(Tail(micro), Microtask("settle", j))
  /\ UNCHANGED <<width, running, waiting, listeners, waits>>
  /\ UNCHANGED <<storeVars, gateVars>>

\* the owner of the promise a "defer" function returned resolves or rejects it
Deferred(j, ok) ==
  /\ j \in DOMAIN jobs
  /\ jobs[j].state = "executing"
  /\ jobs' = [jobs EXCEPT ![j].state = "returned",
                          ![j].result = IF ok THEN "ok" ELSE "err"]
  /\ micro' = Append(micro, Microtask("settle", j))
  /\ UNCHANGED <<width, running, waiting, listeners, waits, begun>>
  /\ UNCHANGED <<storeVars, gateVars>>

\* .then(resolve, reject): the future of job j settles as fn's promise did
SettleFuture(j) ==
  /\ micro # <<>> /\ Head(micro) = Microtask("settle", j)
  /\ jobs' = [jobs EXCEPT ![j].state = "settled",
                          ![j].future = [settled |-> TRUE, of |-> j,
                                         ok |-> jobs[j].result = "ok"]]
  /\ micro' = Append(Tail(micro), Microtask("end", j))
  /\ UNCHANGED <<width, running, waiting, listeners, waits, begun>>
  /\ UNCHANGED <<storeVars, gateVars>>

\* an endJob that starts no waiting job after a job that failed
endJob_StopOnError(j) ==
  /\ micro # <<>> /\ Head(micro) = Microtask("end", j)
  /\ IF running - 1 < width /\ waiting # <<>> /\ jobs[j].result = "ok"
     THEN /\ running' = running
          /\ waiting' = Tail(waiting)
          /\ jobs' = [jobs EXCEPT ![j].state = "ended",
                                  ![Head(waiting)].state = "started"]
          /\ micro' = Append(Tail(micro), Microtask("call", Head(waiting)))
     ELSE /\ running' = running - 1
          /\ jobs' = [jobs EXCEPT ![j].state = "ended"]
          /\ micro' = Tail(micro)
          /\ UNCHANGED waiting
  /\ IF running' = 0
     THEN /\ waits' = [w \in DOMAIN waits |->
                         IF w \in Range(listeners) THEN "released" ELSE waits[w]]
          /\ listeners' = <<>>
     ELSE UNCHANGED <<waits, listeners>>
  /\ UNCHANGED <<width, begun>>
  /\ UNCHANGED <<storeVars, gateVars>>

\* endJob, after job j: the first waiting job is started when there is room,
\* and the listeners are resolved when nothing runs
endJob(j) ==
  /\ micro # <<>> /\ Head(micro) = Microtask("end", j)
  /\ IF running - 1 < width /\ waiting # <<>>
     THEN /\ running' = running
          /\ waiting' = Tail(waiting)
          /\ jobs' = [jobs EXCEPT ![j].state = "ended",
                                  ![Head(waiting)].state = "started"]
          /\ micro' = Append(Tail(micro), Microtask("call", Head(waiting)))
     ELSE /\ running' = running - 1
          /\ jobs' = [jobs EXCEPT ![j].state = "ended"]
          /\ micro' = Tail(micro)
          /\ UNCHANGED waiting
  /\ IF running' = 0
     THEN /\ waits' = [w \in DOMAIN waits |->
                         IF w \in Range(listeners) THEN "released" ELSE waits[w]]
          /\ listeners' = <<>>
     ELSE UNCHANGED <<waits, listeners>>
  /\ UNCHANGED <<width, begun>>
  /\ UNCHANGED <<storeVars, gateVars>>

\* -------------------------------------------------- the start/stop Queue
\* dist/index.mjs, class Queue. The tasks form one chain of promises:
\* add(fn) hangs fn on this._head, and makes the new head the promise of
\* waitForReady, which is called when fn's promise has settled and returns
\* this._ready as it is then. A task is [fn, state, ok, gate]: fn as for the
\* Queue of src/queue.js, or "stop" for the task of stop(); state is
\*   "queued"     hung on the head
\*   "executing"  fn was called and its promise is pending
\*   "settled"    the promise of fn, which add returned, has settled
\*   "passed"     waitForReady was called, and returned gate
\* ok is whether the promise resolved.
Task(fn) == [fn |-> fn, state |-> "queued", ok |-> FALSE, gate |-> 0]

\* new Queue(start): _resetReadyFlag, this._head = this._ready, and start()
\* when the flag is given
SQ_new(start) ==
  /\ gates = <<>>
  /\ gates' = <<start>>
  /\ ready' = 1
  /\ qStarted' = start
  /\ calls' = IF start THEN <<[op |-> "start", task |-> 0]>> ELSE <<>>
  /\ UNCHANGED <<chain, runs>>
  /\ UNCHANGED <<storeVars, queueVars>>

\* Queue.add(fn), and Queue.stop() for fn = "stop"
SQ_add(fn) ==
  /\ gates # <<>>
  /\ Len(chain) < MaxJobs
  /\ chain' = Append(chain, Task(fn))
  /\ calls' = Append(calls, [op |-> IF fn = "stop" THEN "stop" ELSE "add",
                            task |-> Len(chain) + 1])
  /\ UNCHANGED <<qStarted, gates, ready, runs>>
  /\ UNCHANGED <<storeVars, queueVars>>

\* Queue.start(): the function _resetReadyFlag made last resolves its gate
SQ_start ==
  /\ gates # <<>>
  /\ Cardinality({c \in DOMAIN calls : calls[c].op = "start"}) < MaxStarts
  /\ qStarted' = TRUE
  /\ gates' = [gates EXCEPT ![ready] = TRUE]
  /\ calls' = Append(calls, [op |-> "start", task |-> 0])
  /\ UNCHANGED <<ready, chain, runs>>
  /\ UNCHANGED <<storeVars, queueVars>>

\* the head the k-th task hangs on is resolved: the first gate for the first
\* task, else the gate waitForReady returned after the task before
HeadResolved(k) ==
  IF k = 1 THEN gates[1]
  ELSE chain[k - 1].state = "passed" /\ gates[chain[k - 1].gate]

\* this._head.then(fn): the function of the k-th task is called; that of
\* stop() is _resetReadyFlag, which makes a new gate
SQ_run(k) ==
  /\ k \in DOMAIN chain
  /\ chain[k].state = "queued"
  /\ HeadResolved(k)
  /\ runs' = Append(runs, k)
  /\ IF chain[k].fn = "stop"
     THEN /\ qStarted' = FALSE
          /\ gates' = Append(gates, FALSE)
          /\ ready' = Len(gates) + 1
          /\ chain' = [chain EXCEPT ![k].state = "settled", ![k].ok = TRUE]
     ELSE /\ chain' = [chain EXCEPT
                         ![k].state = IF chain[k].fn = "defer"
                                      THEN "executing" ELSE "settled",
                         ![k].ok = chain[k].fn = "value"]
          /\ UNCHANGED <<qStarted, gates, ready>>
  /\ UNCHANGED calls
  /\ UNCHANGED <<storeVars, queueVars>>

\* the owner of the promise a "defer" function returned resolves or rejects it
SQ_deferred(k, ok) ==
  /\ k \in DOMAIN chain
  /\ chain[k].state = "executing"
  /\ chain' = [chain EXCEPT ![k].state = "settled", ![k].ok = ok]
  /\ UNCHANGED <<qStarted, gates, ready, runs, calls>>
  /\ UNCHANGED <<storeVars, queueVars>>

\* prom.then(waitForReady, waitForReady): after the k-th task, resolved or
\* rejected, the head waits for this._ready as it is now
waitForReady(k) ==
  /\ k \in DOMAIN chain
  /\ chain[k].state = "settled"
  /\ chain' = [chain EXCEPT ![k].state = "passed", ![k].gate = ready]
  /\ UNCHANGED <<qStarted, gates, ready, runs, calls>>
  /\ UNCHANGED <<storeVars, queueVars>>

\* ------------------------------------------------------------ the inputs
X == "\"x\""
Y == "\"y\""

\* the rows the callers write: with a scalar, an array, an empty array,
\* null and no value at foo, and one without a primary key
Rows ==
  {[_id |-> Scalar("1"), foo |-> Scalar(X)],
   [_id |-> Scalar("1"), foo |-> Array(<<>>)],
   [_id |-> Scalar("1"), foo |-> Scalar(NULL)],
   [_id |-> Scalar("2"), foo |-> Array(<<Y, X>>)],
   [_id |-> Scalar("2"), foo |-> Scalar(NULL)],
   [_id |-> Scalar("2")],
   [foo |-> Scalar(X)]}

\* the arrays of rows the callers write
Batches ==
  {<<[_id |-> Scalar("1"), foo |-> Scalar(X)],
     [_id |-> Scalar("2"), foo |-> Array(<<Y, X>>)]>>}

FieldNames == {"_id", "foo", "bar"}

\* the names the callers look an index up by: those, and one that no index
\* has and every object inherits
LookupNames == FieldNames \cup {"constructor"}

\* the calls of find and findOne
Lookups ==
  {[name |-> n, fieldName |-> f] : n \in {"find", "findOne"}, f \in LookupNames}

IndexOptions ==
  {[fieldName |-> "foo", unique |-> u, sparse |-> sp] : u \in BOOLEAN, sp \in BOOLEAN}
  \cup {[fieldName |-> "bar", unique |-> FALSE, sparse |-> FALSE]}

\* the calls of insert, update and upsert with one record
SingleUpserts ==
  {[name |-> n, rows |-> <<row>>] :
     n \in {"insert", "update", "upsert"}, row \in Rows}

\* the calls of insert with an array of records
BatchInserts == {[name |-> "insert", rows |-> b] : b \in Batches}

\* the operations of a caller that awaits each call; delete is given a
\* stored record or a row with the key alone
Ops(ixs) ==
  SingleUpserts
  \cup BatchInserts
  \cup {[name |-> "delete", rows |-> <<Serialize(doc)>>] : doc \in Range(allDocs(ixs))}
  \cup {[name |-> "delete", rows |-> <<[_id |-> Scalar("2")]>>]}
  \cup {[name |-> "ensureIndex", options |-> o] : o \in IndexOptions}
  \cup {[name |-> "deleteIndex", fieldName |-> f] : f \in FieldNames}
  \cup Lookups
  \cup {[name |-> "reload"], [name |-> "compact", sortBy |-> "none"]}

\* ------------------------------------------------------ the specifications
\* Spec: one Database, whose caller calls load() first and awaits every
\* call; the process may exit and the file be opened again.
Open == ~loaded[1] /\ Submit(1, [name |-> "reload"])

Operation == \E op \in Ops(indexes[1]) : Call(1, op)

Next ==
  \/ Open
  \/ LockAcquire(1)
  \/ BootHydrate(1)
  \/ BootRewrite(1)
  \/ RunFn(1)
  \/ Operation
  \/ AppendLands
  \/ Exit

Spec == Init /\ [][Next]_vars

\* SpecQueue: two Database objects on the same file, whose callers do not
\* await: a call may be made while earlier ones are queued or running.
QueueOps ==
  {[name |-> "insert", rows |-> <<[_id |-> Scalar("1"), foo |-> Scalar(X)]>>],
   [name |-> "ensureIndex",
    options |-> [fieldName |-> "foo", unique |-> FALSE, sparse |-> FALSE]],
   [name |-> "getAll"]}

Enqueue == \E d \in DB : \E op \in QueueOps : Submit(d, op)

NextQueue ==
  \/ Enqueue
  \/ \E d \in DB : LockAcquire(d)
  \/ \E d \in DB : LockFail(d)
  \/ \E d \in DB : BootHydrate(d)
  \/ \E d \in DB : BootRewrite(d)
  \/ \E d \in DB : RunFn(d)

SpecQueue == Init /\ [][NextQueue]_vars

\* SpecCompact: one Database whose caller awaits every call, with rewrite
\* taken step by step and a process that may be killed at any step; the file
\* is then opened again by a new process.
RowA == [_id |-> Scalar("1"), foo |-> Scalar(X)]
RowB == [_id |-> Scalar("2"), foo |-> Array(<<Y, X>>)]

CompactOps ==
  {[name |-> "insert", rows |-> <<RowA>>],
   [name |-> "upsert", rows |-> <<RowB>>],
   [name |-> "delete", rows |-> <<[_id |-> Scalar("1")]>>],
   [name |-> "ensureIndex",
    options |-> [fieldName |-> "foo", unique |-> FALSE, sparse |-> FALSE]],
   [name |-> "deleteIndex", fieldName |-> "foo"],
   [name |-> "deleteIndex", fieldName |-> "_id"],
   [name |-> "ensureIndex",
    options |-> [fieldName |-> "_id", unique |-> FALSE, sparse |-> FALSE]],
   [name |-> "reload"],
   [name |-> "compact", sortBy |-> "none"],
   [name |-> "compact", sortBy |-> "desc"]}

Invoke ==
  \E op \in CompactOps :
    /\ queue[1] = <<>>
    /\ Len(history[1]) < MaxCalls
    /\ Enter(1, op)

NextCompact ==
  \/ Invoke
  \/ LockAcquire(1)
  \/ BootHydrate(1)
  \/ TempOpen(1)
  \/ TempWrite(1)
  \/ TempSync(1)
  \/ TempClose(1)
  \/ Rename(1)
  \/ CompactStart(1)
  \/ RunOther(1)
  \/ AppendLands
  \/ Crash

SpecCompact == Init /\ [][NextCompact]_vars

\* SpecKeys: one Database whose caller awaits every call and writes records
\* with no primary key, with null, 0, false and the empty string for it,
\* with 1, and with the very string getId makes for the record without key.
KeyLess == [foo |-> Scalar(X)]

GeneratedFirst == getId(KeyLess, Primary(empty))[1]

KeyRows ==
  {KeyLess,
   [_id |-> Scalar(NULL), foo |-> Scalar(X)],
   [_id |-> Scalar("0"), foo |-> Scalar(X)],
   [_id |-> Scalar("false"), foo |-> Scalar(X)],
   [_id |-> Scalar("\"\""), foo |-> Scalar(X)],
   [_id |-> Scalar("1"), foo |-> Scalar(X)],
   [_id |-> Scalar(GeneratedFirst), foo |-> Scalar(Y)]}

KeyOps(ixs) ==
  {[name |-> n, rows |-> <<row>>] : n \in {"insert", "upsert"}, row \in KeyRows}
  \cup {[name |-> "delete", rows |-> <<Serialize(doc)>>] : doc \in Range(allDocs(ixs))}

OperationKeys == \E op \in KeyOps(indexes[1]) : Call(1, op)

NextKeys ==
  \/ Open
  \/ LockAcquire(1)
  \/ BootHydrate(1)
  \/ BootRewrite(1)
  \/ RunFn(1)
  \/ OperationKeys
  \/ Exit

SpecKeys == Init /\ [][NextKeys]_vars

\* SpecIndex: one Database whose caller awaits every call and writes
\* records whose foo is a string, null, absent, an array and an array that
\* repeats an element, under each kind of index on foo; the outcome of every
\* call is kept.
FooValues ==
  {Scalar(X), Scalar(NULL), Array(<<Y, X>>), Array(<<X, X>>)}

IndexRows ==
  {[_id |-> Scalar(i), foo |-> v] : i \in {"1", "2"}, v \in FooValues}
  \cup {[_id |-> Scalar(i)] : i \in {"1", "2"}}

IndexCalls ==
  {[name |-> n, rows |-> <<row>>] : n \in {"insert", "update"}, row \in IndexRows}
  \cup BatchInserts
  \cup {[name |-> "ensureIndex", options |-> o] : o \in IndexOptions}
  \cup {[name |-> "deleteIndex", fieldName |-> "foo"]}

InvokeIndex ==
  \E op \in IndexCalls :
    /\ queue[1] = <<>>
    /\ Len(history[1]) < MaxCalls
    /\ Enter(1, op)

NextIndex ==
  \/ InvokeIndex
  \/ LockAcquire(1)
  \/ BootHydrate(1)
  \/ BootRewrite(1)
  \/ RunFn(1)

SpecIndex == Init /\ [][NextIndex]_vars

\* SpecWidth: a Queue of width 1 or 2, whose callers add jobs and call
\* wait() at any moment, and whose deferred jobs are settled at any moment.
Widths == {1, 2}

NextWidth ==
  \/ \E w \in Widths : Queue_new(w)
  \/ \E fn \in Fns : add(fn)
  \/ wait
  \/ \E j \in DOMAIN jobs : CallFn(j)
  \/ \E j \in DOMAIN jobs : SettleFuture(j)
  \/ \E j \in DOMAIN jobs : endJob(j)
  \/ \E j \in DOMAIN jobs : \E ok \in BOOLEAN : Deferred(j, ok)

SpecWidth == Init /\ [][NextWidth]_vars

\* SpecWidthFair: the same, with the engine running every microtask that is
\* due and the owner of every deferred promise settling it in the end
SpecWidthFair ==
  /\ SpecWidth
  /\ WF_vars(\E j \in 1..MaxJobs : CallFn(j) \/ SettleFuture(j) \/ endJob(j))
  /\ WF_vars(\E j \in 1..MaxJobs : \E ok \in BOOLEAN : Deferred(j, ok))

\* SpecStartStop: a start/stop Queue, made with or without the start flag,
\* whose callers call add, stop and start at any moment, and whose deferred
\* tasks are settled at any moment.
NextStartStop ==
  \/ \E start \in BOOLEAN : SQ_new(start)
  \/ \E fn \in Fns \cup {"stop"} : SQ_add(fn)
  \/ SQ_start
  \/ \E k \in DOMAIN chain : SQ_run(k)
  \/ \E k \in DOMAIN chain : \E ok \in BOOLEAN : SQ_deferred(k, ok)
  \/ \E k \in DOMAIN chain : waitForReady(k)

SpecStartStop == Init /\ [][NextStartStop]_vars

\* SpecLock: a process with two Database objects on the same file, whose
\* callers do not await their calls; lockFile is taken step by step, and the
\* process may run out of work, be interrupted or fail at any moment, after
\* which the file is opened again by a new process.
LockCalls == {[name |-> "reload"], [name |-> "getAll"]}

NextLock ==
  \/ Alive /\ \E d \in DB : \E op \in LockCalls : Submit(d, op)
  \/ Alive /\ \E d \in DB : lockFile_symlink(d)
  \/ Alive /\ \E d \in DB : lockFile_add(d)
  \/ Alive /\ \E d \in DB : LockFail(d)
  \/ Alive /\ \E d \in DB : BootHydrate(d)
  \/ Alive /\ \E d \in DB : BootRewrite(d)
  \/ Alive /\ \E d \in DB : RunFn(d)
  \/ NormalExit
  \/ cleanAndGo
  \/ process_exit
  \/ uncaughtException
  \/ Restart

SpecLock == Init /\ [][NextLock]_vars

\* SpecFault: one Database whose caller awaits every call, with rewrite
\* taken step by step, on a disk whose appends, writes and syncs may fail
\* with an I/O error.
FaultOps ==
  {[name |-> "insert", rows |-> <<RowA>>],
   [name |-> "update", rows |-> <<[_id |-> Scalar("1"), foo |-> Scalar(Y)]>>],
   [name |-> "upsert", rows |-> <<RowB>>],
   [name |-> "delete", rows |-> <<[_id |-> Scalar("1")]>>],
   [name |-> "ensureIndex",
    options |-> [fieldName |-> "foo", unique |-> TRUE, sparse |-> FALSE]],
   [name |-> "deleteIndex", fieldName |-> "foo"],
   [name |-> "compact", sortBy |-> "none"]}

InvokeFault ==
  \E op \in FaultOps :
    /\ queue[1] = <<>>
    /\ Len(history[1]) < MaxCalls
    /\ Enter(1, op)

NextFault ==
  \/ InvokeFault
  \/ LockAcquire(1)
  \/ BootHydrate(1)
  \/ TempOpen(1)
  \/ TempWrite(1)
  \/ TempSync(1)
  \/ TempClose(1)
  \/ Rename(1)
  \/ CompactStart(1)
  \/ RunOther(1)
  \/ AppendFails(1)
  \/ TempWriteFails(1)
  \/ TempSyncFails(1)

SpecFault == Init /\ [][NextFault]_vars

\* SpecPath: one Database whose caller awaits every call, with an index
\* whose fieldName is the dotted path a.b, and records that hold a nested
\* object at a, a string at a, and nothing at a.
PathRows ==
  {[_id |-> Scalar("1"), a |-> Scalar(ObjB)],
   [_id |-> Scalar("2"), a |-> Scalar(Y)],
   [_id |-> Scalar("2")]}

PathCalls ==
  {[name |-> n, rows |-> <<row>>] : n \in {"insert", "upsert"}, row \in PathRows}
  \cup {[name |-> "ensureIndex",
         options |-> [fieldName |-> "a.b", unique |-> u, sparse |-> sp]] :
          u \in BOOLEAN, sp \in BOOLEAN}
  \cup {[name |-> "deleteIndex", fieldName |-> "a.b"]}

InvokePath ==
  \E op \in PathCalls :
    /\ queue[1] = <<>>
    /\ Len(history[1]) < MaxCalls
    /\ Enter(1, op)

NextPath ==
  \/ InvokePath
  \/ LockAcquire(1)
  \/ BootHydrate(1)
  \/ BootRewrite(1)
  \/ RunFn(1)

SpecPath == Init /\ [][NextPath]_vars

\* ------------------------------------------------- the index set's claims
\* the links of an index: the pairs of a key and a document linked under it
Links(ix) ==
  UNION {{<<ix.data[j].key, doc>> : doc \in Range(ix.data[j].docs)} :
           j \in DOMAIN ix.data}

\* two index sets map the same keys to the same documents, index by index
SameLinks(a, b) ==
  /\ Len(a) = Len(b)
  /\ \A i \in DOMAIN a :
       a[i].options = b[i].options /\ Links(a[i]) = Links(b[i])

\* the values of a document at a field: the elements of an array, else the
\* value itself
ValuesAt(doc, fieldName) == Range(Get(doc, fieldName).v)

\* the calls of insert and update with one record
SingleInsertsAndUpdates == {op \in SingleUpserts : op.name \in {"insert", "update"}}

\* C1: an insert or update of one record that raises KeyViolation leaves
\* every index mapping the same keys to the same records as before the call,
\* and appends nothing to the log.
C1_RollbackRestoresLinks ==
  \A op \in SingleInsertsAndUpdates :
    LET r == Fn(indexes[1], file, op) IN
    r.err = "KeyViolation" => SameLinks(r.ixs, indexes[1]) /\ r.file = file

\* an update is about to be rejected by a unique secondary index after the
\* primary index has already replaced the stored record, and an insert by
\* the primary index
C1_Witness ==
  /\ pc[1] = "idle" /\ history[1] # <<>>
  /\ \E op \in SingleInsertsAndUpdates :
       /\ op.name = "update"
       /\ Fn(indexes[1], file, op).err = "KeyViolation"
       /\ LET row == op.rows[1]
              olddoc == Index_findOne(Primary(indexes[1]), ScalarOf(Get(row, "_id")))
              doc == [k \in {"oid"} |-> FreshOid(indexes[1], row)] @@ row
          IN /\ olddoc # <<>>
             /\ ~SameLinks(AddLoop(indexes[1], 1, olddoc, doc).ixs, indexes[1])
  /\ \E op \in SingleInsertsAndUpdates :
       op.name = "insert" /\ Fn(indexes[1], file, op).err = "KeyViolation"

Linked(ix, R) == \E j \in DOMAIN ix.data : R \in Range(ix.data[j].docs)

\* find on ix with value returns R
Finds(ix, value, R) == R \in Range(Index_find(ix, value))

C4_NoStaleRecord ==
  \A d \in DB : \A i \in DOMAIN indexes[d] :
    \A link \in Links(indexes[d][i]) :
      Index_findOne(Primary(indexes[d]), ScalarOf(Get(link[2], "_id"))) = <<link[2]>>

\* a secondary index holds a record while the log ends with the tombstone
\* of another record, deleted after the index was created
C4_Witness ==
  /\ pc[1] = "idle" /\ history[1] # <<>>
  /\ Len(file) = 3
  /\ addIndexKey \in DOMAIN file[1]
  /\ deleted \in DOMAIN file[3]
  /\ \E i \in DOMAIN indexes[1] :
       /\ indexes[1][i].options.fieldName # "_id"
       /\ Links(indexes[1][i]) # {}

\* no task of d is queued or running and no append is in flight
Quiescent(d) ==
  /\ loaded[d] /\ history[d] # <<>>
  /\ pc[d] = "idle" /\ queue[d] = <<>>
  /\ pending = <<>>

\* C5 as written: replaying the log file into an empty store yields the
\* live records and the index descriptors of the store in memory.
C5_LogReplaysToMemory ==
  Quiescent(1) =>
    LET r == hydrate(file) IN
    /\ RecordSet(r.ixs) = RecordSet(indexes[1])
    /\ Descriptors(r.ixs) = Descriptors(indexes[1])

\* --------------------------------------------- the serializer's claims
\* the first task of d rejected before its function ran: the bootstrap failed
BootstrapFailed(d) ==
  history[d] # <<>> /\ ~history[d][1].ran /\ history[d][1].err # ""

InsertedRow == [_id |-> Scalar("1"), foo |-> Scalar(X)]

\* C6: a task submitted after another without awaiting it runs after it, on
\* the store as it left it: the tasks of d settle in the order of their
\* calls; once a task of d has run, the next task of d runs too, and a
\* getAll behind an insert that resolved returns the inserted record.
C6_RunsOnStateLeft ==
  \A d \in DB : \A k \in 2..Len(history[d]) :
    /\ history[d][k].seq = k
    /\ history[d][k - 1].ran =>
      /\ history[d][k].ran
      /\ (/\ history[d][k].op = "getAll"
          /\ \E j \in 1..(k - 1) :
               history[d][j].op = "insert" /\ history[d][j].err = "")
         => InsertedRow \in history[d][k].value

\* an insert that triggered the load, and a getAll queued behind it before
\* it settled that returned the inserted record
C6_Witness ==
  \E d \in DB :
    /\ Len(history[d]) = 2
    /\ history[d][1].op = "insert" /\ history[d][1].err = ""
    /\ history[d][2].op = "getAll" /\ history[d][2].early
    /\ history[d][2].value = {InsertedRow}

\* C7 as written: no operation's function starts before lock acquisition,
\* hydrate and the initial rewrite of its Database have all completed.
C7_NoRunBeforeBoot ==
  \A d \in DB :
    /\ pc[d] = "fn" => booted[d]
    /\ \A k \in DOMAIN history[d] : history[d][k].ran => history[d][k].booted

\* the first task of d settles while another Database holds the lock file
FirstSettlesLocked(d) ==
  /\ history[d] = <<>> /\ history'[d] # <<>>
  /\ lockfile \notin {0, d}

\* C8: while another Database holds the lock on the file, the first
\* operation of a Database fails with DatabaseLocked, its function does not
\* run, and the Database has neither read nor changed the log file.
C8_FirstOperationLocked ==
  [][\A d \in DB :
       FirstSettlesLocked(d) =>
         /\ history'[d][1].err = "DatabaseLocked"
         /\ ~history'[d][1].ran
         /\ ~hasRead'[d]
         /\ file' = file
         /\ indexes'[d] = empty]_vars

\* the first operation of one Database has completed and it holds the lock;
\* the first operation of the other failed with DatabaseLocked
C8_Witness ==
  \E d \in DB : \E e \in DB :
    /\ d # e
    /\ lockfile = e
    /\ history[e] # <<>> /\ history[e][1].ran /\ history[e][1].booted
    /\ history[d] # <<>> /\ history[d][1].err = "DatabaseLocked"

\* C9 as written: a Database whose lock acquisition failed never appends to
\* or rewrites the log file: no task of it changes the file.
C9_LockFailedNeverWrites ==
  [][\A d \in DB :
       (/\ history[d] # <<>>
        /\ history[d][1].err = "DatabaseLocked"
        /\ history'[d] # history[d])
       => file' = file]_vars

\* C10 as written: when the bootstrap of the first task fails, every task
\* queued behind it fails with the same error and its function does not run.
C10_QueuedFailWithBootstrap ==
  \A d \in DB : \A k \in 2..Len(history[d]) :
    (BootstrapFailed(d) /\ history[d][k].early) =>
      /\ history[d][k].err = history[d][1].err
      /\ ~history[d][k].ran

\* ------------------------------------------------- the batches' claims
\* the caller of Database 1 has awaited its calls: no task is running
Awaited == pc[1] = "idle" /\ history[1] # <<>>

\* C11 as written: when insert is given an array and its k-th element fails,
\* the elements before k remain applied in memory and their log entries are
\* in the log file, and the elements from k on are not applied.
C11_EarlierRowsLogged ==
  Awaited =>
    \A op \in BatchInserts :
      LET r == Fn(indexes[1], file, op) IN
      r.err # "" =>
        \E k \in DOMAIN op.rows :
          LET p == AddDocs(indexes[1], SubSeq(op.rows, 1, k - 1), 1, FALSE, TRUE, <<>>)
          IN /\ p.err = ""
             /\ addDoc(p.ixs, op.rows[k], FALSE, TRUE).err = r.err
             /\ r.ixs = p.ixs
             /\ r.file = file \o SerializeAll(p.docs)

\* the record stored under the primary key of row, if any
Live(ixs, row) == Index_findOne(Primary(ixs), ScalarOf(Get(row, "_id")))

\* the call op is rejected with err and leaves the store and the log as they
\* were, with no append in flight
Rejects(op, err) ==
  LET r == Fn(indexes[1], file, op) IN
  /\ r.err = err
  /\ r.ixs = indexes[1]
  /\ r.file = file
  /\ r.started = <<>>

\* C12 as written: update or delete of a record whose primary key is not
\* live fails with NotExists, insert of a record whose primary key is live
\* fails with KeyViolation, and find, findOne and deleteIndex naming an index
\* that does not exist fail with NoIndex; each leaves the records, the
\* indexes and the log file unchanged.
C12_RejectedLeavesStore ==
  Awaited =>
    /\ \A row \in Rows :
         IF Live(indexes[1], row) = <<>>
         THEN /\ Rejects([name |-> "update", rows |-> <<row>>], "NotExists")
              /\ Rejects([name |-> "delete", rows |-> <<row>>], "NotExists")
         ELSE Rejects([name |-> "insert", rows |-> <<row>>], "KeyViolation")
    /\ \A f \in LookupNames :
         IndexAt(indexes[1], f) = 0 =>
           \A n \in {"find", "findOne", "deleteIndex"} :
             Rejects([name |-> n, fieldName |-> f], "NoIndex")

\* ------------------------------------------------- the rewrite's claims
\* a line of the log that is a plain record
IsRecordLine(line) ==
  /\ addIndexKey \notin DOMAIN line
  /\ deleteIndexKey \notin DOMAIN line
  /\ deleted \notin DOMAIN line

\* the descriptors of the indexes of ixs other than the primary index
SecondaryOptions(ixs) ==
  {ixs[i].options : i \in {j \in DOMAIN ixs : ixs[j].options.fieldName # "_id"}}

\* content is one addIndex line for each index of ixs but the primary one,
\* followed by one record line for each live record of ixs
Canonical(content, ixs) ==
  LET n == Cardinality(SecondaryOptions(ixs))
      m == Cardinality(LiveDocs(ixs)) IN
  /\ Len(content) = n + m
  /\ \A i \in 1..n : DOMAIN content[i] = {addIndexKey}
  /\ {content[i][addIndexKey] : i \in 1..n} = SecondaryOptions(ixs)
  /\ \A i \in (n + 1)..(n + m) : IsRecordLine(content[i])
  /\ {content[i] : i \in (n + 1)..(n + m)} = RecordSet(ixs)

\* C13: right after the rename of a rewrite (of compact, and of the first
\* task's load) the log file is one addIndex line for each non-primary index
\* followed by one plain record line for each live record, with no tombstone
\* and no deleteIndex line.
C13_RewrittenIsCanonical ==
  [][Rename(1) => Canonical(file', indexes'[1])]_vars

\* a compact has just settled behind an ensureIndex that appended its line
\* to a log of two records: the log is now the addIndex line of foo followed
\* by the lines of the two records
C13_Witness ==
  /\ pc[1] = "idle"
  /\ Len(history[1]) = 3
  /\ history[1][2].op = "ensureIndex" /\ history[1][2].err = ""
  /\ history[1][3].op = "compact" /\ history[1][3].value = file
  /\ Len(file) = 3
  /\ addIndexKey \in DOMAIN file[1]
  /\ {file[2], file[3]} = {RowA, RowB}

\* the pc of a task inside rewrite, from its call to the rename
RewritePcs == {"rewrite", "write", "sync", "close", "rename"}

\* C14 as written: from the start of a rewrite to its rename the content of
\* the log file is what it was when the rewrite started, whatever step the
\* process is killed at; the rename makes it the complete new content.
C14_LogUntouchedUntilRename ==
  [][pc[1] \in RewritePcs =>
       IF Rename(1) THEN file' = rewrite(indexes[1], SortOf(1))
       ELSE file' = file]_vars

\* C15: two compacts in a row with the same sort option leave the log with
\* the same content.
C15_CompactTwiceSame ==
  \A k \in 2..Len(history[1]) :
    (/\ history[1][k].op = "compact"
     /\ history[1][k - 1].op = "compact"
     /\ history[1][k].call.sortBy = history[1][k - 1].call.sortBy)
    => history[1][k].value = history[1][k - 1].value

\* two compacts in a row that sorted the two records against the order the
\* store holds them in
C15_Witness ==
  /\ pc[1] = "idle"
  /\ \E k \in 2..Len(history[1]) :
       /\ history[1][k].op = "compact" /\ history[1][k - 1].op = "compact"
       /\ history[1][k].call.sortBy = "desc"
       /\ history[1][k - 1].call.sortBy = "desc"
       /\ history[1][k].value = <<RowB, RowA>>
  /\ SerializeAll(allDocs(indexes[1])) = <<RowA, RowB>>

\* C16: a log file that a rewrite produced is replayed by hydrate without
\* error and with no append started, and the rewrite of the store it builds
\* writes the same lines in the same order.
C16_ReopenReproducesLog ==
  [][Rename(1) =>
       LET h == hydrate(file') IN
       /\ h.err = ""
       /\ h.started = <<>>
       /\ rewrite(h.ixs, "none") = file']_vars

\* a new process has replayed a log of an index and two records, the record
\* of the larger key first, and is about to rename a temporary file of the
\* same content over it
C16_Witness ==
  /\ pc[1] = "rename" /\ InBoot(1)
  /\ temp.lines = file
  /\ file = <<AddIndexLine([fieldName |-> "foo", unique |-> FALSE, sparse |-> FALSE]),
              RowB, RowA>>

\* ------------------------------------------------- the log order's claims
MutationNames ==
  {"insert", "update", "upsert", "delete", "ensureIndex", "deleteIndex"}

\* the lines a successful call appends, the store being ixs when it runs
LinesOf(call, ixs) ==
  CASE call.name \in {"insert", "update", "upsert"} ->
         [i \in DOMAIN call.rows |-> Serialize(call.rows[i])]
    [] call.name = "delete" ->
         [i \in DOMAIN call.rows |-> DeletedLine(Live(ixs, call.rows[i])[1])]
    [] call.name = "ensureIndex" ->
         IF IndexAt(ixs, call.options.fieldName) # 0 THEN <<>>
         ELSE <<AddIndexLine(call.options)>>
    [] call.name = "deleteIndex" ->
         IF call.fieldName = "_id" THEN <<>>
         ELSE <<DeleteIndexLine(call.fieldName)>>

\* a task of Database 1 settles in this step
Settles == Len(history'[1]) = Len(history[1]) + 1

\* the outcome of the task that settles
Settled == history'[1][Len(history'[1])]

\* C17: the tasks of a Database settle in the order of its calls, and a
\* successful mutation leaves every line of the log where it is and puts its
\* own lines behind them, so the lines appended for a call precede the lines
\* appended for every later call, with reload and compact among the calls.
C17_LinesInCallOrder ==
  [][Settles =>
       /\ Settled.seq = Len(history'[1])
       /\ (Settled.err = "" /\ Settled.op \in MutationNames) =>
            file' = file \o LinesOf(Settled.call, indexes[1])]_vars

\* an insert, then a compact, then an ensureIndex: the line of the record
\* precedes the line of the index
C17_Witness ==
  /\ pc[1] = "idle"
  /\ Len(history[1]) = 3
  /\ history[1][1].op = "insert" /\ history[1][1].err = ""
  /\ history[1][2].op = "compact"
  /\ history[1][3].op = "ensureIndex" /\ history[1][3].err = ""
  /\ file = <<RowA, AddIndexLine(history[1][3].call.options)>>

\* C18: the primary index on _id is there and unique in every state;
\* deleteIndex('_id') resolves, leaves the indexes and the log as they were
\* and starts no append, and ensureIndex on _id leaves them too.
C18_PrimaryIndexStays ==
  [][/\ IndexAt(indexes'[1], "_id") # 0
     /\ Primary(indexes'[1]).options = PrimaryOptions
     /\ (/\ Settles
         /\ Settled.op \in {"deleteIndex", "ensureIndex"}
         /\ (IF Settled.op = "deleteIndex" THEN Settled.call.fieldName
             ELSE Settled.call.options.fieldName) = "_id")
        => /\ Settled.err = ""
           /\ indexes'[1] = indexes[1]
           /\ file' = file
           /\ pending' = pending]_vars

\* a record is stored, and deleteIndex('_id') and ensureIndex on _id have
\* both resolved behind its insert
C18_Witness ==
  /\ pc[1] = "idle"
  /\ Len(history[1]) = 3
  /\ history[1][1].op = "insert" /\ history[1][1].err = ""
  /\ history[1][2].op = "deleteIndex" /\ history[1][2].call.fieldName = "_id"
  /\ history[1][2].err = ""
  /\ history[1][3].op = "ensureIndex"
  /\ history[1][3].call.options.fieldName = "_id"
  /\ history[1][3].err = ""
  /\ Index_findOne(Primary(indexes[1]), "1") # <<>>

\* ------------------------------------------------- the primary key's claims
\* the primary keys of the live records
LiveKeys(ixs) == {ScalarOf(Get(doc, "_id")) : doc \in LiveDocs(ixs)}

\* the base-36 text of (h + n) mod 2^31, as a string value
Encoded(h, n) == StringScalar(toString36(AddMod31(h, n)))

\* the key the specification assigns to row: the encoding of (h + n) mod 2^31
\* for the least n whose encoding is no live key, h the hash of the row's
\* serialization
AssignedKey(ixs, row) ==
  LET h == hashString(stringify(row))
      n == CHOOSE n \in 0..Cardinality(LiveKeys(ixs)) :
             /\ Encoded(h, n) \notin LiveKeys(ixs)
             /\ \A m \in 0..(n - 1) : Encoded(h, m) \in LiveKeys(ixs)
  IN Encoded(h, n)

\* the call of insert or upsert with row stores one more record, row under
\* the key id, and appends its line
StoresUnder(n, row, id) ==
  LET r == Fn(indexes[1], file, [name |-> n, rows |-> <<row>>])
      stored == [k \in {"_id"} |-> Scalar(id)]
                  @@ [k \in (DOMAIN row) \ {"_id"} |-> row[k]] IN
  /\ r.err = ""
  /\ RecordSet(r.ixs) = RecordSet(indexes[1]) \cup {stored}
  /\ r.file = file \o <<stored>>

\* the rows with no primary key, or null for it
NoKey(row) == IsNullish(ScalarOf(Get(row, "_id")))

\* C19: insert and upsert of a record with no primary key, or a null one,
\* store it under the base-36 encoding of (h + n) mod 2^31 for the least
\* n >= 0 whose encoding is no live key, h the hash of the record's
\* serialization; the key is no live key, and the record is one more live
\* record, so the same record inserted twice is two records of different keys.
C19_GeneratedKeyIsFree ==
  Awaited =>
    \A row \in {k \in KeyRows : NoKey(k)} : \A n \in {"insert", "upsert"} :
      /\ AssignedKey(indexes[1], row) \notin LiveKeys(indexes[1])
      /\ StoresUnder(n, row, AssignedKey(indexes[1], row))
      /\ Cardinality(LiveDocs(Fn(indexes[1], file, [name |-> n, rows |-> <<row>>]).ixs))
           = Cardinality(LiveDocs(indexes[1])) + 1

\* the record without key was inserted twice: two live records of the same
\* content under the first key of getId and under the next one
C19_Witness ==
  /\ Awaited
  /\ file = <<[_id |-> Scalar(GeneratedFirst), foo |-> Scalar(X)],
              [_id |-> Scalar(Encoded(hashString(stringify(KeyLess)), 1)),
               foo |-> Scalar(X)]>>
  /\ RecordSet(indexes[1]) = Range(file)
  /\ Cardinality(LiveDocs(indexes[1])) = 2

\* C20 as written: a record submitted with a primary key that is neither
\* absent nor null (0, false and the empty string among them) is stored
\* under that key; a key is generated only when the record has none.
C20_StoredUnderSuppliedKey ==
  Awaited =>
    \A row \in {k \in KeyRows : ~NoKey(k)} :
      Live(indexes[1], row) = <<>> =>
        /\ StoresUnder("insert", row, ScalarOf(Get(row, "_id")))
        /\ StoresUnder("upsert", row, ScalarOf(Get(row, "_id")))

\* ------------------------------------------------- the indexes' claims
\* the call of Database 1 that settles in this step, and its outcome
Running == Head(queue[1]).op
Last == history[1][Len(history[1])]
LastAfter == history'[1][Len(history'[1])]

\* C21: when ensureIndex fails with KeyViolation while it back-fills a
\* unique index from the stored records, no index of that field name exists
\* afterwards (find on it raises NoIndex), no addIndex line has been appended
\* to the log, and the records and the other indexes are unchanged.
C21_FailedEnsureIndexLeavesStore ==
  [][(RunFn(1) /\ Running.name = "ensureIndex" /\ LastAfter.err = "KeyViolation")
       => /\ IndexAt(indexes'[1], Running.options.fieldName) = 0
          /\ find(indexes'[1], file', Running.options.fieldName).err = "NoIndex"
          /\ file' = file
          /\ pending' = pending
          /\ indexes' = indexes]_vars

\* ensureIndex of a unique index on foo has failed with KeyViolation on two
\* stored records that share a value, while an index on bar exists
C21_Witness ==
  /\ pc[1] = "idle" /\ history[1] # <<>>
  /\ Last.op = "ensureIndex"
  /\ Last.call.options.fieldName = "foo"
  /\ Last.call.options.unique
  /\ Last.err = "KeyViolation"
  /\ IndexAt(indexes[1], "bar") # 0
  /\ Cardinality(LiveDocs(indexes[1])) = 2

\* the index of ixs whose descriptor is options, 0 when there is none
IndexWith(ixs, options) ==
  LET IsIt(ix) == ix.options = options IN FirstIndex(ixs, IsIt)

\* every call made so far is ensureIndex with the descriptor options
OnlyEnsured(options) ==
  \A i \in DOMAIN history[1] :
    history[1][i].call = [name |-> "ensureIndex", options |-> options]

\* C22: ensureIndex with a descriptor equal (field, unique, sparse) to an
\* index that exists is a no-op: it resolves, the indexes are unchanged and
\* nothing is appended to the log; so when the same ensureIndex is repeated,
\* the log holds exactly one addIndex line.
C22_EnsureIndexIdempotent ==
  /\ [][(RunFn(1) /\ Running.name = "ensureIndex"
           /\ IndexWith(indexes[1], Running.options) # 0)
          => /\ LastAfter.err = ""
             /\ indexes' = indexes
             /\ file' = file
             /\ pending' = pending]_vars
  /\ [](\A o \in IndexOptions :
          (pc[1] = "idle" /\ history[1] # <<>> /\ OnlyEnsured(o))
            => file = <<AddIndexLine(o)>>)

\* the same ensureIndex has been called three times
C22_Witness ==
  /\ pc[1] = "idle"
  /\ Len(history[1]) = 3
  /\ \E o \in IndexOptions :
       /\ o.unique /\ o.sparse
       /\ OnlyEnsured(o)
       /\ IndexWith(indexes[1], o) # 0
       /\ file = <<AddIndexLine(o)>>

\* the value of a row or document at fieldName is null or absent
Nullish(doc, fieldName) ==
  ~Get(doc, fieldName).isArray /\ IsNullish(ScalarOf(Get(doc, fieldName)))

\* the call that settles in this step is insert of one record
InsertsOne == RunFn(1) /\ Running.name = "insert" /\ Len(Running.rows) = 1

\* the index on foo, when there is one
FooIndex(ixs) == ixs[IndexAt(ixs, "foo")]

\* C23: in a sparse index a record whose value at the field is null or
\* absent is linked under no key; so under a sparse unique index inserting
\* such a record, with a primary key that is not live, never raises
\* KeyViolation, whatever records are stored, while inserting a record with
\* a non-null value that a stored record holds still does.
C23_SparseSkipsNull ==
  /\ [](\A i \in DOMAIN indexes[1] :
          indexes[1][i].options.sparse =>
            /\ \A R \in LiveDocs(indexes[1]) :
                 Nullish(R, indexes[1][i].options.fieldName)
                   => ~Linked(indexes[1][i], R)
            /\ \A j \in DOMAIN indexes[1][i].data :
                 ~IsNullish(indexes[1][i].data[j].key))
  /\ [][(InsertsOne /\ IndexAt(indexes[1], "foo") # 0
           /\ FooIndex(indexes[1]).options.sparse
           /\ FooIndex(indexes[1]).options.unique)
          => LET row == Running.rows[1] IN
             /\ (Nullish(row, "foo") /\ Live(indexes[1], row) = <<>>)
                  => /\ LastAfter.err = ""
                     /\ FooIndex(indexes'[1]) = FooIndex(indexes[1])
             /\ (\E v \in ValuesAt(row, "foo") :
                   ~IsNullish(v) /\ Has(FooIndex(indexes[1]), v))
                  => LastAfter.err = "KeyViolation"]_vars

\* two records, one with null and one with no value at foo, were inserted
\* under a sparse unique index on foo, which links neither
C23_Witness ==
  /\ pc[1] = "idle"
  /\ Len(history[1]) = 3
  /\ Last.op = "insert" /\ Last.err = ""
  /\ IndexAt(indexes[1], "foo") # 0
  /\ FooIndex(indexes[1]).options.sparse
  /\ FooIndex(indexes[1]).options.unique
  /\ FooIndex(indexes[1]).data = <<>>
  /\ \E a \in LiveDocs(indexes[1]) : \E b \in LiveDocs(indexes[1]) :
       /\ a # b
       /\ "foo" \in DOMAIN a /\ Nullish(a, "foo")
       /\ "foo" \notin DOMAIN b

\* the live records whose value at fieldName is null or absent
NullishDocs(ixs, fieldName) == {R \in LiveDocs(ixs) : Nullish(R, fieldName)}

\* C24 as written: in an index that is not sparse, the records whose field
\* is absent and the records whose field is null are linked under one and
\* the same null key: find(field, null) returns all of them, and a unique
\* index that is not sparse admits at most one such record.
C24_AbsentAndNullShareKey ==
  \A i \in DOMAIN indexes[1] :
    LET ix == indexes[1][i] IN
    ~ix.options.sparse =>
      /\ \A R \in NullishDocs(indexes[1], ix.options.fieldName) :
           Finds(ix, NULL, R)
      /\ ix.options.unique =>
           Cardinality(NullishDocs(indexes[1], ix.options.fieldName)) <= 1

\* how many times find on ix with value returns R
Times(ix, value, R) ==
  Cardinality({k \in DOMAIN Index_find(ix, value) : Index_find(ix, value)[k] = R})

\* the records find on ix with value returns that carry the primary key of row
FoundWithKey(ix, value, row) ==
  {R \in Range(Index_find(ix, value)) : Get(R, "_id") = Get(row, "_id")}

\* C25: on an index that is not unique, a record whose field is an array is
\* returned by find for each of its elements, exactly once for a key even
\* when the array repeats that element; and after an update, find no longer
\* returns it for the elements the new version does not have.
C25_ArrayIndexedByElement ==
  /\ [](\A i \in DOMAIN indexes[1] :
          LET ix == indexes[1][i] IN
          ~ix.options.unique =>
            \A R \in LiveDocs(indexes[1]) :
              Get(R, ix.options.fieldName).isArray =>
                \A v \in ValuesAt(R, ix.options.fieldName) :
                  Times(ix, v, R) = 1)
  /\ [][(RunFn(1) /\ Running.name = "update" /\ LastAfter.err = ""
           /\ IndexAt(indexes[1], "foo") # 0
           /\ ~FooIndex(indexes[1]).options.unique)
          => LET row == Running.rows[1]
                 old == Live(indexes[1], row)[1] IN
             /\ \A v \in ValuesAt(old, "foo") \ ValuesAt(row, "foo") :
                  FoundWithKey(FooIndex(indexes'[1]), v, row) = {}
             /\ \A v \in ValuesAt(row, "foo") :
                  \/ FooIndex(indexes'[1]).options.sparse /\ IsNullish(v)
                  \/ Cardinality(FoundWithKey(FooIndex(indexes'[1]), v, row)) = 1]_vars

\* under an index on foo that is not unique, a record stored with the array
\* ["y","x"] was updated to ["x","x"]: find returns it once for "x" and no
\* longer for "y"
C25_Witness ==
  /\ pc[1] = "idle"
  /\ Len(history[1]) = 3
  /\ history[1][2].op = "insert" /\ history[1][2].err = ""
  /\ Get(history[1][2].call.rows[1], "foo") = Array(<<Y, X>>)
  /\ Last.op = "update" /\ Last.err = ""
  /\ Get(Last.call.rows[1], "foo") = Array(<<X, X>>)
  /\ IndexAt(indexes[1], "foo") # 0
  /\ ~FooIndex(indexes[1]).options.unique
  /\ Len(Index_find(FooIndex(indexes[1]), X)) = 1
  /\ Index_find(FooIndex(indexes[1]), Y) = <<>>

\* ------------------------------------------------- the Queue's claims
\* the jobs startJob has counted and endJob has not
Counted == {j \in DOMAIN jobs : jobs[j].state \in {"started", "executing", "returned", "settled"}}

\* the jobs whose function was called and whose promise has not settled
Executing == {j \in DOMAIN jobs : jobs[j].state = "executing"}

\* the functions were called in the order of the add() calls
InAddOrder == \A i \in DOMAIN begun : \A k \in DOMAIN begun : i < k => begun[i] < begun[k]

\* C26: with width 1 at most one task is executing at any time, and the
\* tasks start in the order of their add() calls; for any width the number
\* of running tasks never exceeds the width.
C26_AtMostWidthRunning ==
  width # 0 =>
    /\ running = Cardinality(Counted)
    /\ running <= width
    /\ Cardinality(Executing) <= width
    /\ width = 1 => Cardinality(Executing) <= 1 /\ InAddOrder

\* a Queue of width 1 has called the functions of the first and the second
\* job, in that order; the second executes while the third waits
C26_Witness ==
  /\ width = 1
  /\ begun = <<1, 2>>
  /\ Executing = {2}
  /\ waiting = <<3>>
  /\ running = 1

\* the future of job j is settled
Done(j) == j \in DOMAIN jobs /\ jobs[j].future.settled

\* C27: a task that throws or rejects makes only its own future fail; the
\* queue keeps running: every future is settled with the result of its own
\* task, a waiting task is started when a task ends, whether or not that
\* one failed, and the future of every task added is settled in the end.
C27_FailureStaysWithItsTask ==
  /\ [](\A j \in DOMAIN jobs :
          Done(j) =>
            /\ jobs[j].future.of = j
            /\ jobs[j].future.ok = (jobs[j].result = "ok")
            /\ jobs[j].fn = "throw" => ~jobs[j].future.ok
            /\ jobs[j].fn = "value" => jobs[j].future.ok)
  /\ [][\A j \in DOMAIN jobs :
          (endJob(j) /\ waiting # <<>>) => jobs'[Head(waiting)].state = "started"]_vars
  /\ \A j \in 1..MaxJobs : (j \in DOMAIN jobs) ~> Done(j)

\* of three tasks of a Queue of width 1 the second has failed, and the first
\* and the third have resolved
C27_Witness ==
  /\ width = 1
  /\ Len(jobs) = 3
  /\ \A j \in {1, 3} : Done(j) /\ jobs[j].future.of = j /\ jobs[j].future.ok
  /\ Done(2) /\ jobs[2].future.of = 2 /\ ~jobs[2].future.ok
  /\ jobs[2].fn = "throw"

\* no task is running and none is pending
Idle == running = 0 /\ waiting = <<>> /\ Counted = {}

\* the promise of the w-th call of wait() is resolved
Resolved(w) == w \in DOMAIN waits /\ waits[w] # "pending"

\* C28: a promise returned by wait() resolves only at a moment when no task
\* is running and none is pending; it is resolved whenever the queue is
\* idle, and is resolved in the end; and wait() called on an idle queue
\* returns a resolved promise.
C28_WaitResolvesWhenIdle ==
  /\ [][\A w \in 1..MaxWaits :
          (~Resolved(w) /\ Resolved(w)') => Idle']_vars
  /\ [](Idle => \A w \in DOMAIN waits : Resolved(w))
  /\ [][\A w \in 1..MaxWaits :
          (wait /\ Idle /\ w = Len(waits) + 1) => Resolved(w)']_vars
  /\ \A w \in 1..MaxWaits : (w \in DOMAIN waits) ~> Resolved(w)

\* wait() was called while two tasks were running and its promise is
\* resolved now that both have ended; a second wait(), called on the idle
\* queue, returned the resolved promise
C28_Witness ==
  /\ width = 2
  /\ Len(jobs) = 2
  /\ \A j \in DOMAIN jobs : jobs[j].state = "ended" /\ jobs[j].fn = "defer"
  /\ waits = <<"released", "resolved">>
  /\ Idle

\* --------------------------------------- the start/stop Queue's claims
\* the call of add or stop that added the k-th task
CallOf(k) == CHOOSE c \in DOMAIN calls : calls[c].task = k

\* start() was called after the c-th call
StartAfter(c) == \E c2 \in DOMAIN calls : c2 > c /\ calls[c2].op = "start"

\* the promise of the k-th task has settled
Completed(k) == chain[k].state \in {"settled", "passed"}

\* the Queue can take no step of its own: every task is over, or hangs on a
\* head that is not resolved
AtRest ==
  \A k \in DOMAIN chain :
    \/ chain[k].state = "passed"
    \/ chain[k].state = "queued" /\ ~HeadResolved(k)

\* a Queue made without the start flag runs no task until start() is called
NoneBeforeStart ==
  (\A c \in DOMAIN calls : calls[c].op # "start") => runs = <<>>

\* the tasks added before stop() have completed when stop()'s promise resolves
StopAfterEarlier ==
  \A s \in DOMAIN chain : \A k \in DOMAIN chain :
    (chain[s].fn = "stop" /\ k < s /\ Completed(s)) => Completed(k)

\* a task added after stop() does not run before start() is called again
NoneBeforeRestart ==
  \A s \in DOMAIN chain : \A k \in DOMAIN chain :
    (chain[s].fn = "stop" /\ s < k /\ k \in Range(runs)) => StartAfter(CallOf(s))

\* the tasks run in the order they were added
InOrderAdded ==
  \A i \in DOMAIN runs : \A k \in DOMAIN runs : i < k => runs[i] < runs[k]

\* the Queue was started before the c-th call
StartBefore(c) == \E c0 \in DOMAIN calls : c0 < c /\ calls[c0].op = "start"

\* once the Queue has been started, and start() called again after every
\* stop(), the tasks run: none is left when the Queue has come to rest
RunOnceStarted ==
  ( /\ AtRest
    /\ \E c \in DOMAIN calls : calls[c].op = "start"
    /\ \A c \in DOMAIN calls :
         calls[c].op = "stop" => StartBefore(c) /\ StartAfter(c) )
  => \A k \in DOMAIN chain : k \in Range(runs)

\* C29 as written: a start/stop Queue created without the start flag runs no
\* task until start() is called; tasks added before stop() still complete
\* and stop()'s promise resolves after them, while tasks added after stop()
\* do not run until start() is called again, and then run in the order they
\* were added.
C29_StopHoldsUntilStart ==
  /\ NoneBeforeStart
  /\ StopAfterEarlier
  /\ NoneBeforeRestart
  /\ InOrderAdded
  /\ RunOnceStarted


\* --------------------------------------------------- the lock files' claim
\* the lock file exists and the process that has ended made it
LockLeft == Gone /\ lockfile \in DB

\* the lock file lockFile had recorded before the process ended is removed
RecordedRemoved == (Gone /\ LockName \in lockfiles) => lockfile = 0

\* a process that ended with nothing left to do left no lock file
ExitedClean == proc = "exited" => lockfile = 0

\* a lock file left behind is one whose lockFile had not resumed after symlink
LeftUnrecorded ==
  LockLeft => (lockfiles = {} /\ pc[lockfile] = "symlinked"
               /\ proc \in {"interrupted", "failed"})

\* C30: when the process that owns lock files ends, by normal exit, by
\* SIGINT or by an uncaught error, no lock file it created is left: once the
\* process is gone the lock file does not exist.
C30_LocksRemovedWhenGone == Gone => lockfile = 0

\* --------------------------------------------------- the replay's claims
\* Database 1 runs hydrate in this step: in the bootstrap of its first task,
\* or in the function of reload
Replays ==
  \/ BootHydrate(1)
  \/ RunFn(1) /\ Running.name = "reload"
  \/ file' = file /\ Call(1, [name |-> "reload"])

\* the hydrate of this step throws, and the promise of its task rejects
ReplayFails == hydrate(file).err # ""

\* the $$deleted line names a record that is not live in ixs
DeadDelete(ixs, line) ==
  /\ deleted \in DOMAIN line
  /\ Live(ixs, line[deleted]) = <<>>

\* the lines of a log from lines[i] on, without the $$deleted lines whose
\* record is not live when the replay, started from ixs, reaches them
RECURSIVE WithoutDead(_, _, _)
WithoutDead(ixs, lines, i) ==
  IF i > Len(lines) THEN <<>>
  ELSE IF DeadDelete(ixs, lines[i]) THEN WithoutDead(ixs, lines, i + 1)
  ELSE LET Kept(r) ==
             IF r.err # "" THEN SubSeq(lines, i, Len(lines))
             ELSE <<lines[i]>> \o WithoutDead(r.ixs, lines, i + 1)
       IN Kept(HydrateLoop(ixs, <<lines[i]>>, 1, <<>>))

\* the log holds a $$deleted line whose record is not live at that point
HasDeadDelete(lines) == WithoutDead(empty, lines, 1) # lines

\* C31 as written: during hydrate, a $$deleted line whose primary key is not
\* live at that point of the replay is skipped without error: when the other
\* lines replay, hydrate completes and the store holds what they build.
C31_DeadDeleteSkipped ==
  [][(Replays /\ HasDeadDelete(file))
       => LET r == hydrate(WithoutDead(empty, file, 1)) IN
          r.err = "" =>
            /\ ~ReplayFails
            /\ RecordSet(indexes'[1]) = RecordSet(r.ixs)
            /\ Descriptors(indexes'[1]) = Descriptors(r.ixs)]_vars

\* the greatest element of a set of line numbers, 0 for the empty set
Latest(S) == IF S = {} THEN 0 ELSE CHOOSE i \in S : \A j \in S : j <= i

\* the last $$addIndex line of the log for fieldName, 0 when there is none
InstalledAt(lines, fieldName) ==
  Latest({i \in DOMAIN lines :
            /\ addIndexKey \in DOMAIN lines[i]
            /\ lines[i][addIndexKey].fieldName = fieldName})

\* the last record line of the log with the primary key of R
WrittenAt(lines, R) ==
  Latest({i \in DOMAIN lines :
            IsRecordLine(lines[i]) /\ Get(lines[i], "_id") = Get(R, "_id")})

\* the record R, live after the replay of lines, was replayed from a line
\* before the $$addIndex line that installed ix
ReplayedBefore(lines, ix, R) ==
  /\ InstalledAt(lines, ix.options.fieldName) > 0
  /\ WrittenAt(lines, R) < InstalledAt(lines, ix.options.fieldName)

OtherHolds(ixs, row, name) ==
  \E k \in DOMAIN ixs :
    /\ ixs[k].options.unique
    /\ \E v \in ValuesAt(row, ixs[k].options.fieldName) :
         \E D \in Range(Index_find(ixs[k], v)) :
           name = "insert" \/ Get(D, "_id") # Get(row, "_id")

\* C33 as written: on a unique index, adding a record raises KeyViolation
\* only if a different record is already linked under one of its keys; a
\* record never conflicts with itself, so an insert into a store that holds
\* no record succeeds whatever the indexed value is.
C33_NoSelfConflict ==
  [][(/\ RunFn(1)
      /\ Running.name \in {"insert", "update"}
      /\ Len(Running.rows) = 1
      /\ LastAfter.err = "KeyViolation")
       => /\ OtherHolds(indexes[1], Running.rows[1], Running.name)
          /\ LiveDocs(indexes[1]) # {}]_vars

\* ----------------------------------------------- the I/O errors' claims
\* replaying content yields the live records and the index descriptors of ixs
Agree(ixs, content) ==
  LET r == hydrate(content) IN
  /\ r.err = ""
  /\ RecordSet(r.ixs) = RecordSet(ixs)
  /\ Descriptors(r.ixs) = Descriptors(ixs)

\* C34 as written: if the log append of an insert, update, upsert, delete,
\* ensureIndex or deleteIndex fails with an I/O error, the change the
\* operation made in memory is rolled back, so that memory and the log still
\* agree once the operation's promise has rejected.
C34_FailedAppendRolledBack ==
  [][AppendFails(1)
       => /\ LastAfter.err = "EIO"
          /\ SameLinks(indexes'[1], indexes[1])
          /\ Agree(indexes[1], file) => Agree(indexes'[1], file')]_vars

\* the rewrite of Database 1 stands between its open and its close
HandleInUse == pc[1] \in {"write", "sync", "close"}

\* C35 as written: in rewrite the handle of the temporary file is closed on
\* every exit path, including when writing the content or the fsync fails:
\* outside the steps of a rewrite between open and close, no handle on the
\* temporary file is open.
C35_TempHandleClosed == ~HandleInUse => handles = 0

\* ------------------------------------------------ the dotted path's claim
\* the keys of ix under which R is linked
KeysOf(ix, R) == {l[1] : l \in {m \in Links(ix) : m[2] = R}}

\* the keys an index of this descriptor is to hold for a record whose value
\* at the field is value: each element of an array, else the value, none
\* that is null or absent when the index is sparse
KeysFor(options, value) ==
  {v \in Range(value.v) : ~(options.sparse /\ IsNullish(v))}

\* C36 as written: an index whose fieldName is a dotted path (a.b) links
\* each record under the value reached by following the path through the
\* nested objects, and treats a record with a missing intermediate object
\* as one whose value at that field is absent.
C36_DottedPathFollowed ==
  \A k \in DOMAIN indexes[1] : \A R \in LiveDocs(indexes[1]) :
    indexes[1][k].options.fieldName = "a.b" =>
      KeysOf(indexes[1][k], R)
        = KeysFor(indexes[1][k].options, delve(R, "a.b"))

\* ----------------------------------------------- the reload's claims
\* C37 as written: hydrate, run by load or by reload, only reads the log:
\* replaying any log, one with $$deleteIndex lines included, starts no
\* append and leaves the content of the log file as it was, and no write
\* started during hydrate is in flight while what follows it runs.
C37_HydrateOnlyReads ==
  /\ [][Replays => (pending' = pending /\ file' = file)]_vars
  /\ [](pc[1] \in {"rewrite", "fn"} => pending = <<>>)

\* the function of reload runs in this step
Reloads ==
  \/ RunFn(1) /\ Running.name = "reload"
  \/ file' = file /\ Call(1, [name |-> "reload"])

\* C38 as written: if reload fails (a replayed entry is rejected), the
\* records and the indexes in memory are the same as before reload was
\* called: a failed reload never leaves the store with only a prefix of
\* the log.
C38_FailedReloadKeepsStore ==
  [][(Reloads /\ ReplayFails)
       => /\ RecordSet(indexes'[1]) = RecordSet(indexes[1])
          /\ Descriptors(indexes'[1]) = Descriptors(indexes[1])]_vars

\* ---------------------------------------------- the descriptor's claim
\* C39 as written: after ensureIndex(d) resolves, the index on d.fieldName
\* has the unique and sparse flags given in d, also when an index on that
\* field with other flags existed before the call.
C39_EnsuredFlagsTakeEffect ==
  [][(RunFn(1) /\ Running.name = "ensureIndex" /\ LastAfter.err = "")
       => IndexWith(indexes'[1], Running.options) # 0]_vars

\* ------------------------------------------------ the Queue's progress
\* job j has run to its end: its function was called, its future is settled
\* and endJob has run for it
Over(j) == j \in Range(begun) /\ Done(j) /\ jobs[j].state = "ended"

\* C40: if the promise of every task settles in the end, every task added to
\* the Queue is started in the end and its future settles in the end: no
\* task stays pending for ever, whatever the interleaving of the add() calls
\* and the completions, and whichever tasks fail.
C40_EveryTaskRunsToTheEnd ==
  \A j \in 1..MaxJobs : (j \in DOMAIN jobs) ~> Over(j)

\* a Queue of width 1 has run three tasks to their end in the order they
\* were added; the first, whose promise its owner settled later, failed
C40_Witness ==
  /\ width = 1
  /\ Len(jobs) = MaxJobs
  /\ \A j \in DOMAIN jobs : Over(j)
  /\ jobs[1].fn = "defer" /\ jobs[1].result = "err"
  /\ jobs[3].fn = "defer"
  /\ begun = <<1, 2, 3>>
  /\ Idle

====
